---- MODULE Spec2Model ----
(***************************************************************************)
(* Model of the translate-hook i18n library.                               *)
(*                                                                         *)
(* Two implementations live in the repository and both are modelled:       *)
(*   - the signal-store implementation  (initInstanceI18n,                 *)
(*     src/unnamed/part_003 and src/src/app/translate-base.ts), and        *)
(*   - the class implementation         (I18nTranslateImplement,           *)
(*     src/unnamed/part_001).                                              *)
(* They share the template engine and tryGetTranslate                      *)
(* (src/unnamed/part_000, translate-util).                                 *)
(*                                                                         *)
(* A JavaScript string is a sequence of one-character strings, so that     *)
(* template compilation, String(), and the comparisons the code makes      *)
(* between a rendering and a key are computed and not assumed.             *)
(***************************************************************************)
EXTENDS Integers, Sequences, FiniteSets, TLC

(***************************************************************************)
(* Bounds of the model.                                                    *)
(***************************************************************************)
\* number of tokens a generated template is concatenated from
MaxTokens == 3
\* length of a generated argument list
MaxArgs == 2
\* largest placeholder index the claims about templates range over
MaxIndex == 11

(***************************************************************************)
(* JavaScript values.                                                      *)
(***************************************************************************)
Undefined == [t |-> "undefined"]
Null == [t |-> "null"]
Str(s) == [t |-> "str", v |-> s]
Num(n) == [t |-> "num", v |-> n]

DigitChars == <<"0", "1", "2", "3", "4", "5", "6", "7", "8", "9">>

IsDigit(c) == \E d \in 1..10 : DigitChars[d] = c

DigitVal(c) == (CHOOSE d \in 1..10 : DigitChars[d] = c) - 1

RECURSIVE NatToStr(_)
\* String(n) for a non-negative integer: its decimal digits.
NatToStr(n) ==
    IF n < 10 THEN <<DigitChars[n + 1]>>
    ELSE NatToStr(n \div 10) \o <<DigitChars[(n % 10) + 1]>>

RECURSIVE StrToNat(_)
StrToNat(s) ==
    IF Len(s) = 0 THEN 0
    ELSE 10 * StrToNat(SubSeq(s, 1, Len(s) - 1)) + DigitVal(s[Len(s)])

\* A property name that is an array index: the canonical decimal form of a
\* number ("0", "7", "10"), so "01" names no element of an array.
IsArrayIndex(s) ==
    /\ Len(s) >= 1
    /\ \A i \in 1..Len(s) : IsDigit(s[i])
    /\ (Len(s) > 1 => s[1] # "0")

\* String(value) for a value that is neither null nor undefined.
ToJsString(value) ==
    IF value.t = "str" THEN value.v ELSE NatToStr(value.v)

IsNullish(value) == value.t \in {"undefined", "null"}

(***************************************************************************)
(* Template engine (translate-util).                                       *)
(***************************************************************************)
RECURSIVE DigitRun(_, _)
\* Length of the longest run of digits of t that starts at position p.
DigitRun(t, p) ==
    IF p <= Len(t) /\ IsDigit(t[p]) THEN 1 + DigitRun(t, p + 1) ELSE 0

\* Length of the match of /\{\{(\d+)\}\}/ at position p of t; 0 when none.
MatchAt(t, p) ==
    IF /\ p + 1 <= Len(t)
       /\ t[p] = "{"
       /\ t[p + 1] = "{"
    THEN LET n == DigitRun(t, p + 2)
             q == p + 2 + n
         IN IF n >= 1 /\ q + 1 <= Len(t) /\ t[q] = "}" /\ t[q + 1] = "}"
            THEN n + 4
            ELSE 0
    ELSE 0

RECURSIVE ScanTemplate(_, _, _, _)
\* template.replace(/\{\{(\d+)\}\}/g, callback): p is the scan position,
\* lastIndex the start of the pending literal (both 1-based), acc the
\* segments and placeholders pushed so far.  The captured group is pushed
\* as it is captured: a string of digits.
ScanTemplate(t, p, lastIndex, acc) ==
    IF p > Len(t)
    THEN [segments |-> Append(acc.segments, SubSeq(t, lastIndex, Len(t))),
          placeholders |-> acc.placeholders]
    ELSE LET m == MatchAt(t, p)
         IN IF m > 0
            THEN ScanTemplate(t, p + m, p + m,
                     [segments |-> Append(acc.segments, SubSeq(t, lastIndex, p - 1)),
                      placeholders |-> Append(acc.placeholders, SubSeq(t, p + 2, p + m - 3))])
            ELSE ScanTemplate(t, p + 1, lastIndex, acc)

compileTemplateFunction(template) ==
    ScanTemplate(template, 1, 1, [segments |-> <<>>, placeholders |-> <<>>])

\* values[idx] where idx is placeholders[index]: a captured digit string,
\* or undefined for the trailing segment.
ArrayGet(values, placeholders, index) ==
    IF index > Len(placeholders) THEN Undefined
    ELSE LET idx == placeholders[index]
         IN IF IsArrayIndex(idx) /\ StrToNat(idx) < Len(values)
            THEN values[StrToNat(idx) + 1]
            ELSE Undefined

\* Mutant: the index held as a number, so that index 0 is falsy.
MissingTextNumberIdx(placeholders, index) ==
    IF index > Len(placeholders) THEN <<>>
    ELSE IF IsArrayIndex(placeholders[index]) /\ StrToNat(placeholders[index]) = 0
         THEN <<>>
         ELSE <<"{", "{">> \o placeholders[index] \o <<"}", "}">>

\* idx ? `{{${idx}}}` : ''  -- idx is undefined (falsy) past the last
\* placeholder and otherwise a non-empty string of digits (truthy, "0" too).
MissingText(placeholders, index) ==
    IF index > Len(placeholders) THEN <<>>
    ELSE <<"{", "{">> \o placeholders[index] \o <<"}", "}">>

RECURSIVE ReduceSegments(_, _, _, _)
ReduceSegments(segments, placeholders, values, index) ==
    IF index > Len(segments) THEN <<>>
    ELSE LET value == ArrayGet(values, placeholders, index)
             interpolated == IF ~IsNullish(value)
                             THEN ToJsString(value)
                             ELSE MissingText(placeholders, index)
         IN segments[index] \o interpolated
                \o ReduceSegments(segments, placeholders, values, index + 1)

\* Mutant: the reduction runs over the placeholders, losing the last segment.
taggedTemplateNoTail(segments, placeholders, values) ==
    ReduceSegments(SubSeq(segments, 1, Len(placeholders)), placeholders, values, 1)

taggedTemplate(segments, placeholders, values) ==
    ReduceSegments(segments, placeholders, values, 1)

\* The compiled template function applied to values.
RenderTemplate(template, values) ==
    LET c == compileTemplateFunction(template)
    IN taggedTemplate(c.segments, c.placeholders, values)

(***************************************************************************)
(* Bundles and the Bundle Store.                                           *)
(*                                                                         *)
(* A bundle (TranslationData) is a function from its own keys to entries;  *)
(* an entry is a raw string, a compiled template function (written back by *)
(* tryGetTranslate), or a value that is neither (a nested object).  The    *)
(* store (storeLanguage) is a function from the loaded language codes to   *)
(* their bundles.                                                          *)
(***************************************************************************)
Fn(template) == [t |-> "fn", v |-> template]
Obj == [t |-> "obj"]
Native(name) == [t |-> "native", v |-> name]

EmptyBundle == <<>>

S_toString == <<"t", "o", "S", "t", "r", "i", "n", "g">>

\* Object.prototype.toString called with no receiver.
S_objectUndefined ==
    <<"[", "o", "b", "j", "e", "c", "t", " ",
      "U", "n", "d", "e", "f", "i", "n", "e", "d", "]">>

S_valueOf == <<"v", "a", "l", "u", "e", "O", "f">>

\* Members a bundle object inherits from Object.prototype (the bundle is a
\* plain object parsed from JSON); toString and valueOf are modelled.
InheritedNames == {S_toString, S_valueOf}

\* An inherited member called as temp(values), with no receiver:
\* toString answers for undefined, valueOf raises on it.
NativeCall(name) ==
    IF name = S_toString THEN Str(S_objectUndefined)
    ELSE [t |-> "error",
          message |-> "TypeError: Cannot convert undefined or null to object"]

\* translations[key]: an own entry, else an inherited member, else undefined.
GetProperty(translations, key) ==
    IF key \in DOMAIN translations THEN translations[key]
    ELSE IF key \in InheritedNames THEN Native(key)
    ELSE Undefined

\* Mutant: a key the bundle lacks gives the empty text, not the key.
tryGetTranslateEmptyOnMiss(key, lang, values, store) ==
    IF lang \notin DOMAIN store THEN Null
    ELSE LET temp == GetProperty(store[lang], key)
         IN IF temp.t \in {"str", "fn"} THEN Str(RenderTemplate(temp.v, values))
            ELSE IF temp.t = "native" THEN NativeCall(temp.v)
            ELSE Str(<<>>)

\* The value tryGetTranslate returns: null when the language has no bundle,
\* the rendering when the entry is a string or a function, else the key.
tryGetTranslate(key, lang, values, store) ==
    IF lang \notin DOMAIN store THEN Null
    ELSE LET temp == GetProperty(store[lang], key)
         IN IF temp.t \in {"str", "fn"} THEN Str(RenderTemplate(temp.v, values))
            ELSE IF temp.t = "native" THEN NativeCall(temp.v)
            ELSE Str(key)

\* Mutant: the entry a read rendered is left holding the compiled form of
\* the empty template.
tryGetTranslateStoreBlanks(key, lang, store) ==
    IF /\ lang \in DOMAIN store
       /\ key \in DOMAIN store[lang]
       /\ store[lang][key].t = "str"
    THEN [store EXCEPT ![lang][key] = Fn(<<>>)]
    ELSE store

\* The store tryGetTranslate leaves behind: a string entry it rendered is
\* replaced in place by its compiled function.
tryGetTranslateStore(key, lang, store) ==
    IF /\ lang \in DOMAIN store
       /\ key \in DOMAIN store[lang]
       /\ store[lang][key].t = "str"
    THEN [store EXCEPT ![lang][key] = Fn(store[lang][key].v)]
    ELSE store

\* a ?? b
Coalesce(a, b) == IF IsNullish(a) THEN b ELSE a

\* !a for a string or null
Falsy(a) == IsNullish(a) \/ a = Str(<<>>)

(***************************************************************************)
(* Resolution, signal-store implementation (createTranslationResolver).    *)
(***************************************************************************)
resolveTranslation(key, lang, values, translations) ==
    IF lang \notin DOMAIN translations THEN Str(key)
    ELSE Coalesce(tryGetTranslate(key, lang, values, translations), Str(key))

\* Whether translateFn goes on to the fallback language.
FallsBack(result, key, currentLang, fallbackLang) ==
    result = Str(key) /\ fallbackLang # "" /\ fallbackLang # currentLang

translateFn(key, values, currentLang, fallbackLang, translations) ==
    LET result == resolveTranslation(key, currentLang, values, translations)
    IN IF FallsBack(result, key, currentLang, fallbackLang)
       THEN resolveTranslation(key, fallbackLang, values,
                tryGetTranslateStore(key, currentLang, translations))
       ELSE result

translateFnStore(key, values, currentLang, fallbackLang, translations) ==
    LET result == resolveTranslation(key, currentLang, values, translations)
        after == tryGetTranslateStore(key, currentLang, translations)
    IN IF FallsBack(result, key, currentLang, fallbackLang)
       THEN tryGetTranslateStore(key, fallbackLang, after)
       ELSE after

(***************************************************************************)
(* Resolution, class implementation (I18nTranslateImplement).              *)
(***************************************************************************)
ClsFallsBack(translates, currentLang, fallbackLang) ==
    Falsy(translates) /\ fallbackLang # "" /\ fallbackLang # currentLang

getTranslationText(key, currentLang, values, fallbackLang, store) ==
    LET translates == tryGetTranslate(key, currentLang, values, store)
    IN IF ClsFallsBack(translates, currentLang, fallbackLang)
       THEN Coalesce(tryGetTranslate(key, fallbackLang, values,
                         tryGetTranslateStore(key, currentLang, store)),
                     Str(key))
       ELSE Coalesce(translates, Str(key))

getTranslationTextStore(key, currentLang, values, fallbackLang, store) ==
    LET translates == tryGetTranslate(key, currentLang, values, store)
        after == tryGetTranslateStore(key, currentLang, store)
    IN IF ClsFallsBack(translates, currentLang, fallbackLang)
       THEN tryGetTranslateStore(key, fallbackLang, after)
       ELSE after


(***************************************************************************)
(* State.                                                                  *)
(***************************************************************************)
VARIABLES
    tpl,                \* render harness: the template string
    args,               \* render harness: the argument list
    out,                \* render harness: the rendering, or NotRendered
    currentLanguage,    \* the current language code
    fallbackLanguage,   \* the fallback language code
    storeLanguage,      \* the Bundle Store
    lastGet,            \* the get(key, ...values) call just made and its result
    impl,               \* which implementation the session runs
    lastOp,             \* the operation, effect or completion that ran last
    supportedLanguages, \* the supported language codes, in order
    persisted,          \* the language held by the storage service, "" if none
    loadingStates,      \* signal-store: language -> loading flag
    translationRequestCache, \* languages that have a cached request observable
    http,               \* per language, the state of the cached shareReplay
    subs,               \* signal-store: languages whose load subscription is live
    fetchCount,         \* per language, the HTTP GETs issued so far
    loadOutcome,        \* per language, how its latest completed GET ended
    destroyed,          \* dispose() / destroy() has been called
    callbacks,          \* signal-store: the registered change callbacks
    fired,              \* signal-store: the callbacks the last step invoked
    saveDirty,          \* signal-store: the auto-save effect is scheduled
    loadDirty,          \* signal-store: the auto-load effect is scheduled
    cacheDirty,         \* signal-store: the cache-clearing effect is scheduled
    signalCache,        \* signal-store: cache key -> the cached signal's request
    observableCache,    \* signal-store: cache key -> the cached observable's request
    resDirty,           \* class: the resource's request changed, loader not yet run
    resPending,         \* class: the language the resource awaits, "" if none
    resValue,           \* class: the resource's value, Undefined while loading
    effDirty,           \* class: the effect that stores the value is scheduled
    eventLanguageLoaded, \* class: the #eventLanguageLoaded signal
    orphanSubs,         \* signal-store: languages with a live load subscription
                        \* on a request that dispose() dropped from the cache
    result,             \* what the last call returned or raised, if anything
    heldList,           \* the array the caller passed in or was handed, if kept
    heldShared,         \* that array is the session's own array object
    translateInstance,  \* class registry: the instance held, or Null
    isInitialized,      \* class registry: the initialized flag
    instanceI18nGlobal, \* store registry: the instance held, or Null
    isInitializedFlag,  \* store registry: the initialized flag
    storeI18nTranslate, \* keyed registry: key class -> the instance held
    constructed,        \* the sessions constructed so far
    created,            \* the signals and observables handed out so far
    stream,             \* class: the get$ handle a subscriber follows, if any
    langDirty,          \* class: the effect feeding its language is scheduled
    waitLang,           \* class: the language whose load it waits for, or ""
    waitDirty,          \* class: the effect watching that load is scheduled
    emitted,            \* class: the values it has received, in order
    serverFiles,        \* per language, the bundle file the server holds
    i18nConfig,         \* the configuration the session was constructed with
    lruCache,           \* LRU cache: its entries, in the Map's insertion order
    lruMaxSize,         \* LRU cache: the maxSize it was created with
    lruClock            \* LRU cache: the latest value Date.now() returned

renderVars == <<tpl, args, out>>
resolveVars == <<currentLanguage, fallbackLanguage, storeLanguage, lastGet>>
loaderVars ==
    <<loadingStates, translationRequestCache, http, subs, fetchCount,
      loadOutcome, destroyed, orphanSubs>>
storeImplVars ==
    <<callbacks, fired, saveDirty, loadDirty, cacheDirty, signalCache,
      observableCache>>
classImplVars == <<resDirty, resPending, resValue, effDirty, eventLanguageLoaded>>
sessionVars ==
    <<supportedLanguages, persisted, loaderVars, storeImplVars, classImplVars>>
callerVars == <<heldList, heldShared>>
\* What no operation of a session touches, but for the array a caller of
\* setLanguageSupport or getLanguageSupport holds.
registryVars ==
    <<translateInstance, isInitialized, instanceI18nGlobal, isInitializedFlag,
      storeI18nTranslate, constructed>>
streamVars == <<stream, langDirty, waitLang, waitDirty, emitted>>
\* What surrounds a session and no step of it changes.
lruVars == <<lruCache, lruMaxSize, lruClock>>
envVars == <<serverFiles, i18nConfig, lruVars>>
harnessVars ==
    <<renderVars, callerVars, registryVars, created, streamVars, envVars>>
vars == <<harnessVars, resolveVars, impl, lastOp, result, sessionVars>>

NotRendered == [t |-> "none"]
NoGet == [impl |-> "none"]
NoOp == [op |-> "none", lang |-> ""]
\* The last step was no call, or a call that returned nothing and raised
\* nothing.
NoResult == [t |-> "none"]
\* An error raised to the caller.
Error(message) == [t |-> "error", message |-> message]
\* The change callbacks a caller may register; "g" is one that throws.
AllCallbacks == {"f", "g"}
Throws(fn) == fn = "g"
\* No callback was invoked.
NoneFired == [fn \in AllCallbacks |-> 0]

Langs == {"en", "vi"}

\* The language codes a caller passes: the supported ones and another one.
AllLangs == Langs \cup {"ja"}

\* Values of the session variables while only a harness runs.
SessionIdle ==
    /\ supportedLanguages = <<>>
    /\ persisted = ""
    /\ loadingStates = <<>>
    /\ translationRequestCache = {}
    /\ http = [l \in AllLangs |-> "idle"]
    /\ subs = {}
    /\ fetchCount = [l \in AllLangs |-> 0]
    /\ loadOutcome = [l \in AllLangs |-> "none"]
    /\ destroyed = FALSE
    /\ callbacks = {}
    /\ fired = NoneFired
    /\ saveDirty = FALSE
    /\ loadDirty = FALSE
    /\ cacheDirty = FALSE
    /\ signalCache = <<>>
    /\ observableCache = <<>>
    /\ resDirty = FALSE
    /\ resPending = ""
    /\ resValue = Undefined
    /\ effDirty = FALSE
    /\ eventLanguageLoaded = ""
    /\ orphanSubs = {}

\* The registries of a process that has started: nothing is held.
RegistryIdle ==
    /\ translateInstance = Null
    /\ isInitialized = FALSE
    /\ instanceI18nGlobal = Null
    /\ isInitializedFlag = FALSE
    /\ storeI18nTranslate = <<>>
    /\ constructed = 0

NoStream == [t |-> "none"]

\* Nobody has subscribed to a get$ handle.
StreamIdle ==
    /\ stream = NoStream
    /\ langDirty = FALSE
    /\ waitLang = ""
    /\ waitDirty = FALSE
    /\ emitted = <<>>

\* The caller holds no array, the last step returned nothing and no
\* registry has been used.
\* No LRU cache has been created.
LruIdle ==
    /\ lruCache = <<>>
    /\ lruMaxSize = 0
    /\ lruClock = 0

HarnessIdle ==
    /\ result = NoResult
    /\ heldList = Undefined
    /\ heldShared = FALSE
    /\ RegistryIdle
    /\ created = 0
    /\ StreamIdle
    /\ LruIdle

\* The bundle files of the deployment the sessions are run against.
AssetFiles ==
    [lang \in AllLangs |->
        IF lang = "en" THEN <<"k">> :> Str(<<"a", "{", "{", "0", "}", "}">>)
        ELSE IF lang = "vi" THEN <<"k">> :> Str(<<"V">>)
        ELSE <<>>]

CallerIdle ==
    /\ HarnessIdle
    /\ serverFiles = AssetFiles
    /\ i18nConfig = Undefined

(***************************************************************************)
(* Inputs of the render harness.                                           *)
(***************************************************************************)
Tokens ==
    { <<"a">>,
      <<"{", "{", "0", "}", "}">>,
      <<"{", "{", "1", "}", "}">>,
      <<"{", "{", "0", "1", "}", "}">>,
      <<"{", "{">>,
      <<"0", "}", "}">> }

RECURSIVE Flatten(_)
Flatten(ts) == IF Len(ts) = 0 THEN <<>> ELSE Head(ts) \o Flatten(Tail(ts))

SeqsUpTo(S, n) == UNION {[1..m -> S] : m \in 0..n}

Templates == {Flatten(ts) : ts \in SeqsUpTo(Tokens, MaxTokens)}

ArgValues == {Undefined, Null, Str(<<"x">>), Num(15)}

ArgLists == SeqsUpTo(ArgValues, MaxArgs)

\* Values of the resolution variables while only the render harness runs.
ResolveIdle ==
    /\ currentLanguage = ""
    /\ fallbackLanguage = ""
    /\ storeLanguage = <<>>
    /\ lastGet = NoGet
    /\ impl = "none"
    /\ lastOp = NoOp
    /\ SessionIdle

RenderIdle ==
    /\ tpl = <<>>
    /\ args = <<>>
    /\ out = NotRendered
    /\ CallerIdle

InitRender ==
    /\ tpl \in Templates
    /\ args \in ArgLists
    /\ out = NotRendered
    /\ CallerIdle
    /\ ResolveIdle

\* compileTemplateFunction(tpl)(args)
Render ==
    /\ out = NotRendered
    /\ out' = Str(RenderTemplate(tpl, args))
    /\ UNCHANGED <<tpl, args, callerVars, registryVars, envVars, created, streamVars, resolveVars, impl, lastOp, result,
                   sessionVars>>

NextRender == Render

SpecRender == InitRender /\ [][NextRender]_vars


(***************************************************************************)
(* Resolution harness: get(key, ...values) of either implementation        *)
(* against every Bundle Store over ResolveBundles.                         *)
(***************************************************************************)
K_k == <<"k">>

ResolveKeys == {K_k, S_toString}

\* What a bundle may hold for "k": a text equal to the key, the empty
\* text, a plain text, a template, a nested object.
ResolveEntries ==
    { Str(<<"k">>), Str(<<>>), Str(<<"W">>),
      Str(<<"a", "{", "{", "0", "}", "}">>), Obj }

ResolveBundles ==
    {EmptyBundle}
        \cup {K_k :> e : e \in ResolveEntries}
        \cup {S_toString :> Str(<<"T">>)}

ResolveArgLists == {<<>>, <<Str(<<"x">>)>>}

InitResolve ==
    /\ storeLanguage \in UNION {[L -> ResolveBundles] : L \in SUBSET Langs}
    /\ currentLanguage \in Langs
    /\ fallbackLanguage \in Langs \cup {""}
    /\ lastGet = NoGet
    /\ impl \in {"store", "class"}
    /\ lastOp = NoOp
    /\ SessionIdle
    /\ RenderIdle

\* instance.get of the signal-store implementation: translateFn()(key, values)
GetStore(key, values) ==
    /\ impl = "store"
    /\ lastOp' = [op |-> "get", lang |-> ""]
    /\ lastGet' = [impl |-> "store", key |-> key, args |-> values,
                   result |-> translateFn(key, values, currentLanguage,
                                          fallbackLanguage, storeLanguage)]
    /\ storeLanguage' = translateFnStore(key, values, currentLanguage,
                                         fallbackLanguage, storeLanguage)
    /\ result' = NoResult
    /\ fired' = NoneFired
    /\ UNCHANGED <<currentLanguage, fallbackLanguage, harnessVars, impl,
                   supportedLanguages, persisted, loaderVars, callbacks,
                   saveDirty, loadDirty, cacheDirty, signalCache,
                   observableCache, classImplVars>>

\* I18nTranslateImplement.get
GetClass(key, values) ==
    /\ impl = "class"
    /\ lastOp' = [op |-> "get", lang |-> ""]
    /\ lastGet' = [impl |-> "class", key |-> key, args |-> values,
                   result |-> getTranslationText(key, currentLanguage, values,
                                                 fallbackLanguage, storeLanguage)]
    /\ storeLanguage' = getTranslationTextStore(key, currentLanguage, values,
                                                fallbackLanguage, storeLanguage)
    /\ result' = NoResult
    /\ UNCHANGED <<currentLanguage, fallbackLanguage, harnessVars, impl,
                   sessionVars>>

NextResolve ==
    \/ \E key \in ResolveKeys, values \in ResolveArgLists : GetStore(key, values)
    \/ \E key \in ResolveKeys, values \in ResolveArgLists : GetClass(key, values)

SpecResolve == InitResolve /\ [][NextResolve]_vars

(***************************************************************************)
(* Claims about resolution (checked under SpecResolve).                    *)
(*                                                                         *)
(* A key is absent from a language's bundle when the language has no       *)
(* bundle in the store or the lookup translations[key] finds nothing.  It  *)
(* has a rendering there when the bundle holds a text for it.              *)
(***************************************************************************)
Loaded(lang) == lang \in DOMAIN storeLanguage

AbsentFrom(lang, key) ==
    ~Loaded(lang) \/ GetProperty(storeLanguage[lang], key) = Undefined

HasText(lang, key) ==
    /\ Loaded(lang)
    /\ key \in DOMAIN storeLanguage[lang]
    /\ storeLanguage[lang][key].t \in {"str", "fn"}

Rendering(lang, key, values) ==
    Str(RenderTemplate(storeLanguage[lang][key].v, values))

GetDone == lastGet # NoGet

\* C1: when c # f, k is absent from c's bundle (not loaded, or loaded
\* without k) and f's loaded bundle has k, get(k, args) is f's rendering
\* of k with args.
C1_FallbackCorrectness ==
    (/\ GetDone
     /\ currentLanguage # fallbackLanguage
     /\ AbsentFrom(currentLanguage, lastGet.key)
     /\ HasText(fallbackLanguage, lastGet.key))
        => lastGet.result = Rendering(fallbackLanguage, lastGet.key, lastGet.args)

C3_CurrentLanguageWins ==
    (/\ GetDone
     /\ HasText(currentLanguage, lastGet.key))
        => lastGet.result = Rendering(currentLanguage, lastGet.key, lastGet.args)

(***************************************************************************)
(* Claims about the template engine (checked under SpecRender).            *)
(*                                                                         *)
(* The claims speak of "each occurrence of {{i}}" for an index i: the text *)
(* "{{" followed by the decimal form of i and "}}".  Subst is that         *)
(* substitution, written from the claims and not from the code.            *)
(***************************************************************************)
PhText(i) == <<"{", "{">> \o NatToStr(i) \o <<"}", "}">>

StartsWith(t, p, s) ==
    /\ p + Len(s) - 1 <= Len(t)
    /\ SubSeq(t, p, p + Len(s) - 1) = s

PlaceholdersAt(t, p) == {i \in 0..MaxIndex : StartsWith(t, p, PhText(i))}

Referenced(t) == UNION {PlaceholdersAt(t, p) : p \in 1..Len(t)}

HasArg(values, i) == i < Len(values) /\ ~IsNullish(values[i + 1])

\* What a placeholder {{i}} stands for: String(values[i]) when present,
\* and when missing the literal {{i}}, or "" for index 0 if zeroEmpty.
Piece(i, values, zeroEmpty) ==
    IF HasArg(values, i) THEN ToJsString(values[i + 1])
    ELSE IF zeroEmpty /\ i = 0 THEN <<>>
    ELSE PhText(i)

RECURSIVE Subst(_, _, _, _)
Subst(t, p, values, zeroEmpty) ==
    IF p > Len(t) THEN <<>>
    ELSE IF PlaceholdersAt(t, p) # {}
    THEN LET i == CHOOSE j \in PlaceholdersAt(t, p) : TRUE
         IN Piece(i, values, zeroEmpty)
                \o Subst(t, p + Len(PhText(i)), values, zeroEmpty)
    ELSE <<t[p]>> \o Subst(t, p + 1, values, zeroEmpty)

C5_PlaceholderSubstitution ==
    (/\ out # NotRendered
     /\ \A i \in Referenced(tpl) : HasArg(args, i))
        => out = Str(Subst(tpl, 1, args, FALSE))

\* A rendering of a template with both placeholders, literal text around
\* them, and a number and a string as arguments.
C5_Witness ==
    /\ out # NotRendered
    /\ Referenced(tpl) = {0, 1}
    /\ \A i \in Referenced(tpl) : HasArg(args, i)
    /\ \E i \in 1..Len(args) : args[i].t = "num"
    /\ tpl[Len(tpl)] = "a"
    /\ out # Str(tpl)


(***************************************************************************)
(* The session: configuration, persistence, loading, effects.              *)
(*                                                                         *)
(* Angular runs an effect some time after a signal it read was set, so an  *)
(* effect is a flag (scheduled or not) and an action that runs it.  An     *)
(* HTTP GET is started by the first subscription to the cached shareReplay *)
(* of a language and completes in an action of its own, with the file the  *)
(* server holds or with a transport error.                                 *)
(***************************************************************************)
MaxFetch == 2

CSP_LANGUAGE_CONFIG ==
    [defaultLanguage |-> "en", fallbackLanguage |-> "en",
     languageSupported |-> <<"en", "vi">>]

DEFAULT_I18N_CONFIG ==
    [defaultLanguage |-> "vi", fallbackLanguage |-> "en",
     languageSupported |-> <<"vi", "en">>]

\* What storage holds for the language at construction: nothing, a
\* supported code, a code that is not supported.
SavedLangs == {""} \cup AllLangs

\* The file the server holds for a language.
ServerFile(lang) == serverFiles[lang]

\* langs.includes(lang)
Includes(langs, lang) == \E i \in 1..Len(langs) : langs[i] = lang

\* A configuration is a record of the fields it states; defaultLanguage,
\* when stated, is a language code.
\* savedLang || configure.defaultLanguage || 'en'.  The configuration the
\* class merges always states a default language.
DefaultLanguage(savedLang, configure) ==
    IF savedLang # "" THEN savedLang
    ELSE IF "defaultLanguage" \in DOMAIN configure THEN configure.defaultLanguage
    ELSE "en"

\* languageSupported?.length ? languageSupported : [defaultLanguage]
SupportedLangs(savedLang, configure) ==
    IF /\ "languageSupported" \in DOMAIN configure
       /\ Len(configure.languageSupported) > 0
    THEN configure.languageSupported
    ELSE <<DefaultLanguage(savedLang, configure)>>

\* Mutant: the language wanted is current whether supported or not.
FinalDefaultLangUnchecked(savedLang, configure) ==
    DefaultLanguage(savedLang, configure)

FinalDefaultLang(savedLang, configure) ==
    LET defaultLanguage == DefaultLanguage(savedLang, configure)
        supportedLangs == SupportedLangs(savedLang, configure)
    IN IF Includes(supportedLangs, defaultLanguage)
       THEN defaultLanguage
       ELSE supportedLangs[1]

\* Mutant: a configuration that states no fallback language has none.
FallbackLanguageNone(savedLang, configure) ==
    IF "fallbackLanguage" \in DOMAIN configure
    THEN configure.fallbackLanguage
    ELSE ""

\* fallbackLangConf ?? finalDefaultLang
FallbackLanguage(savedLang, configure) ==
    IF "fallbackLanguage" \in DOMAIN configure
    THEN configure.fallbackLanguage
    ELSE FinalDefaultLang(savedLang, configure)

\* { ...DEFAULT_I18N_CONFIG, ...i18nConfig }
MergedConfig(config) == config @@ DEFAULT_I18N_CONFIG

\* What initializeConfig sets, the same in both implementations.
initializeConfig(savedLang, configure) ==
    /\ persisted = savedLang
    /\ fallbackLanguage = FallbackLanguage(savedLang, configure)
    /\ supportedLanguages = SupportedLangs(savedLang, configure)
    /\ currentLanguage = FinalDefaultLang(savedLang, configure)

\* Mutant: every language code counts as supported.
IsSupportedAlways(supported, lang) == TRUE

\* supported.includes(lang) in setLanguage
IsSupported(supported, lang) == Includes(supported, lang)

\* Mutant: no language code counts as the current one.
IsCurrentNever(current, lang) == FALSE

\* currentLanguage() === lang in setLanguage
IsCurrent(current, lang) == current = lang

\* map.get(lang): the bundle wrapped as a value, or undefined
MapGet(store, lang) ==
    IF lang \in DOMAIN store THEN [t |-> "data", v |-> store[lang]]
    ELSE Undefined

\* Mutant: the new map holds the one entry set.
MapSetAlone(map, lang, value) == (lang :> value)

\* map.set(lang, value)
MapSet(map, lang, value) == (lang :> value) @@ map

\* Mutant: every delivered bundle counts as different from the stored one.
isDifferentAlways(a, b) == TRUE

\* isDifferentTranslateData(a, b), b an object.  The test a === b is folded
\* into the comparison of the key counts: one object has one key count.
isDifferentTranslateData(a, b) ==
    IF a = Undefined THEN TRUE
    ELSE Cardinality(DOMAIN a.v) # Cardinality(DOMAIN b)

\* The state of the shareReplay(1) a subscriber of lang's request meets: a
\* language without a cached request gets a new, unconnected one.
ShareState(lang) ==
    IF lang \in translationRequestCache THEN http[lang] ELSE "idle"

\* The bundle a completed GET hands to its subscriber: the file, or {} from
\* catchError.
Delivered(lang, ok) == IF ok THEN ServerFile(lang) ELSE EmptyBundle

\* The shareReplay after its source ended: the value stays buffered after a
\* success, the connection is reset after an error.
ShareAfter(ok) == IF ok THEN "done" ELSE "idle"


(***************************************************************************)
(* Signal-store implementation (initInstanceI18n).                         *)
(***************************************************************************)
CallbackIds == {"f"}

HandleKeys == {K_k}

HandleArgLists == {<<>>}

\* JSON.stringify of one element of the argument array (the texts used
\* hold no character that JSON escapes).
JsonValue(value) ==
    IF value.t = "str" THEN <<"\"">> \o value.v \o <<"\"">>
    ELSE IF value.t = "num" THEN NatToStr(value.v)
    ELSE <<"n", "u", "l", "l">>

RECURSIVE JsonItems(_)
JsonItems(values) ==
    IF Len(values) = 0 THEN <<>>
    ELSE IF Len(values) = 1 THEN JsonValue(values[1])
    ELSE JsonValue(Head(values)) \o <<",">> \o JsonItems(Tail(values))

JsonStringify(values) == <<"[">> \o JsonItems(values) \o <<"]">>

getCacheKey(key, values) ==
    IF Len(values) > 0 THEN key \o <<":">> \o JsonStringify(values) ELSE key

\* The session initInstanceI18n returns, before any effect has run;
\* variant: "store" for the one with handle caches, "base" for the one
\* without.
initInstanceI18n(variant, savedLangs, configs, files) ==
    /\ impl = variant
    /\ \E savedLang \in savedLangs, translationConfig \in configs :
           /\ initializeConfig(savedLang, translationConfig)
           /\ i18nConfig = translationConfig
    /\ serverFiles \in files
    /\ storeLanguage = <<>>
    /\ loadingStates = <<>>
    /\ translationRequestCache = {}
    /\ http = [l \in AllLangs |-> "idle"]
    /\ subs = {}
    /\ orphanSubs = {}
    /\ fetchCount = [l \in AllLangs |-> 0]
    /\ loadOutcome = [l \in AllLangs |-> "none"]
    /\ destroyed = FALSE
    /\ callbacks = {}
    /\ fired = NoneFired
    /\ saveDirty = TRUE
    /\ loadDirty = TRUE
    /\ cacheDirty = TRUE
    /\ signalCache = <<>>
    /\ observableCache = <<>>
    /\ resDirty = FALSE
    /\ resPending = ""
    /\ resValue = Undefined
    /\ effDirty = FALSE
    /\ eventLanguageLoaded = ""
    /\ lastGet = NoGet
    /\ lastOp = NoOp
    /\ tpl = <<>>
    /\ args = <<>>
    /\ out = NotRendered
    /\ HarnessIdle

\* translationConfig = CSP_LANGUAGE_CONFIG: a session of the default
\* configuration.
InitSignalStore(variant) ==
    initInstanceI18n(variant, SavedLangs, {CSP_LANGUAGE_CONFIG}, {AssetFiles})

InitStore == InitSignalStore("store")

\* The signal store of either variant.
IsStore == impl \in {"store", "base"}

\* instance.setLanguage.  Setting the signal schedules the three effects,
\* which all read currentLanguage.
SetLanguageStore(lang) ==
    /\ IsStore
    /\ lastOp' = [op |-> "setLanguage", lang |-> lang]
    /\ lastGet' = NoGet
    /\ result' = NoResult
    /\ IF \/ ~IsSupported(supportedLanguages, lang)
          \/ IsCurrent(currentLanguage, lang)
       THEN UNCHANGED <<currentLanguage, saveDirty, loadDirty, cacheDirty>>
       ELSE /\ currentLanguage' = lang
            /\ saveDirty' = TRUE
            /\ loadDirty' = TRUE
            /\ cacheDirty' = TRUE
    /\ fired' = NoneFired
    /\ UNCHANGED <<harnessVars, fallbackLanguage, storeLanguage, impl,
                   supportedLanguages, persisted, loaderVars, callbacks,  signalCache, observableCache, classImplVars>>

\* Mutant: the auto-save effect writes nothing.
storeDataSkipped(lang, held) == held

\* if (lang) storageLanguage.storeData(CSP_I18N_STORAGE_LANG, lang): what
\* storage holds afterwards.
storeData(lang, held) == IF lang # "" THEN lang ELSE held

\* The auto-save effect.
RunSaveEffect ==
    /\ impl = "store"
    /\ saveDirty
    /\ lastOp' = [op |-> "effect", lang |-> ""]
    /\ lastGet' = NoGet
    /\ result' = NoResult
    /\ saveDirty' = FALSE
    /\ persisted' = storeData(currentLanguage, persisted)
    /\ fired' = NoneFired
    /\ UNCHANGED <<harnessVars, currentLanguage, fallbackLanguage, storeLanguage,
                   impl, supportedLanguages, loaderVars, callbacks, 
                   loadDirty, cacheDirty, signalCache, observableCache,
                   classImplVars>>

\* Mutant: the loader never takes a language as already loaded.
AlreadyLoadedNever(store, lang) == FALSE

\* storeLanguage().has(lang) in loadLanguageResource
AlreadyLoaded(store, lang) == lang \in DOMAIN store

\* currentLoadingStates.get(lang)
IsLoading(states, lang) == lang \in DOMAIN states /\ states[lang]

\* updateTranslations replaces the bundle (data is an object, so truthy).
Replaces(lang, data) ==
    isDifferentTranslateData(MapGet(storeLanguage, lang), data)

\* Mutant: no try/catch around a callback.  The first callback that throws
\* ends the iteration, taken here before any other callback, and its error
\* leaves triggerCallbacks.
triggerCallbacksUncaught(cbs) ==
    IF \E fn \in cbs : Throws(fn)
    THEN [fired |-> [fn \in AllCallbacks |->
                        IF fn \in cbs /\ Throws(fn) THEN 1 ELSE 0],
          raised |-> TRUE]
    ELSE [fired |-> [fn \in AllCallbacks |-> IF fn \in cbs THEN 1 ELSE 0],
          raised |-> FALSE]

\* triggerCallbacks(callbacks): forEach over the Set calls each member once,
\* inside try/catch.  The result tells how often each callback was called
\* and whether an error left the function.
triggerCallbacks(cbs) ==
    [fired |-> [fn \in AllCallbacks |-> IF fn \in cbs THEN 1 ELSE 0],
     raised |-> FALSE]

\* What onTranslationUpdate did in a Receive for lang with data.
Notified(lang, data) ==
    IF Replaces(lang, data)
    THEN triggerCallbacks(callbacks)
    ELSE [fired |-> NoneFired, raised |-> FALSE]

\* The subscriber of loadLanguageResource receiving a result:
\* updateTranslations, the callbacks it triggers, setLoadingState(false),
\* which an error leaving updateTranslations would skip.  Both signals
\* written are read by the auto-load effect, storeLanguage also by the
\* cache-clearing effect.
Receive(lang, data) ==
    /\ storeLanguage' = IF Replaces(lang, data)
                        THEN MapSet(storeLanguage, lang, data)
                        ELSE storeLanguage
    /\ fired' = Notified(lang, data).fired
    /\ result' = IF Notified(lang, data).raised
                 THEN Error("callback") ELSE NoResult
    /\ cacheDirty' = (cacheDirty \/ Replaces(lang, data))
    /\ loadingStates' = IF Notified(lang, data).raised
                        THEN loadingStates
                        ELSE MapSet(loadingStates, lang, FALSE)
    /\ loadDirty' = TRUE

\* The auto-load effect: loadLanguageResource(currentLanguage()).  A run
\* that writes loadingStates, which it has read, schedules itself again.
\* A subscription made after dispose() is not ended by takeUntil(destroy$):
\* the completed subject emits nothing.
RunLoadEffect ==
    /\ IsStore
    /\ loadDirty
    /\ lastOp' = [op |-> "effect", lang |-> ""]
    /\ lastGet' = NoGet
    /\ LET lang == currentLanguage
       IN IF \/ lang = ""
             \/ AlreadyLoaded(storeLanguage, lang)
             \/ IsLoading(loadingStates, lang)
          THEN /\ loadDirty' = FALSE
               /\ fired' = NoneFired
               /\ result' = NoResult
               /\ UNCHANGED <<storeLanguage, loadingStates,
                              translationRequestCache, http, subs, fetchCount,
                              cacheDirty>>
          ELSE /\ translationRequestCache' = translationRequestCache \cup {lang}
               /\ IF ShareState(lang) = "done"
                  THEN /\ Receive(lang, ServerFile(lang))
                       /\ UNCHANGED <<http, subs, fetchCount>>
                  ELSE /\ ShareState(lang) = "idle" => fetchCount[lang] < MaxFetch
                       /\ http' = [http EXCEPT ![lang] = "inflight"]
                       /\ fetchCount' =
                              IF ShareState(lang) = "idle"
                              THEN [fetchCount EXCEPT ![lang] = @ + 1]
                              ELSE fetchCount
                       /\ subs' = subs \cup {lang}
                       /\ loadingStates' = MapSet(loadingStates, lang, TRUE)
                       /\ loadDirty' = TRUE
                       /\ fired' = NoneFired
                       /\ result' = NoResult
                       /\ UNCHANGED <<storeLanguage, cacheDirty>>
    /\ UNCHANGED <<harnessVars, currentLanguage, fallbackLanguage, impl,
                   supportedLanguages, persisted, loadOutcome, destroyed,
                   orphanSubs,
                   callbacks, saveDirty, signalCache, observableCache,
                   classImplVars>>

\* Mutant: dispose() leaves the Bundle Store as it is.
clearSkipped(map) == map

\* map.clear()
clear(map) == <<>>

\* The cache-clearing effect: translationCache.invalidateCache()
RunCacheEffect ==
    /\ impl = "store"
    /\ cacheDirty
    /\ lastOp' = [op |-> "effect", lang |-> ""]
    /\ lastGet' = NoGet
    /\ result' = NoResult
    /\ cacheDirty' = FALSE
    /\ signalCache' = clear(signalCache)
    /\ observableCache' = clear(observableCache)
    /\ fired' = NoneFired
    /\ UNCHANGED <<harnessVars, currentLanguage, fallbackLanguage, storeLanguage,
                   impl, supportedLanguages, persisted, loaderVars, callbacks,  saveDirty, loadDirty, classImplVars>>

\* The GET for lang ends: with the file (ok) or with a transport error.
HttpCompleteStore(lang, ok) ==
    /\ IsStore
    /\ http[lang] = "inflight"
    /\ lastOp' = [op |-> "http", lang |-> ""]
    /\ lastGet' = NoGet
    /\ http' = [http EXCEPT ![lang] = ShareAfter(ok)]
    /\ loadOutcome' = [loadOutcome EXCEPT ![lang] = IF ok THEN "ok" ELSE "error"]
    /\ IF lang \in subs
       THEN /\ Receive(lang, Delivered(lang, ok))
            /\ subs' = subs \ {lang}
       ELSE /\ fired' = NoneFired
            /\ result' = NoResult
            /\ UNCHANGED <<storeLanguage, cacheDirty, loadingStates,
                           loadDirty, subs>>
    /\ UNCHANGED <<harnessVars, currentLanguage, fallbackLanguage, impl,
                   supportedLanguages, persisted, translationRequestCache,
                   fetchCount, destroyed, orphanSubs, callbacks, saveDirty,
                   signalCache, observableCache, classImplVars>>

\* The GET of a request that a second dispose() dropped from the cache ends
\* and the subscription that outlived that dispose() receives the result.
OrphanComplete(lang, ok) ==
    /\ impl = "store"
    /\ lang \in orphanSubs
    /\ lastOp' = [op |-> "http", lang |-> ""]
    /\ lastGet' = NoGet
    /\ loadOutcome' = [loadOutcome EXCEPT ![lang] = IF ok THEN "ok" ELSE "error"]
    /\ Receive(lang, Delivered(lang, ok))
    /\ orphanSubs' = orphanSubs \ {lang}
    /\ UNCHANGED <<harnessVars, currentLanguage, fallbackLanguage, impl,
                   supportedLanguages, persisted, translationRequestCache,
                   http, subs, fetchCount, destroyed, callbacks, saveDirty,
                   signalCache, observableCache, classImplVars>>

\* new Set(callbacks).add(fn): a Set holds a function once
addCallback(cbs, fn) == cbs \cup {fn}

\* Mutant: the revoke function removes nothing.
deleteNothing(cbs, fn) == cbs

\* new Set(callbacks).delete(fn)
deleteCallback(cbs, fn) == cbs \ {fn}

\* instance.onChangedLanguage(fn)
AddCallback(fn) ==
    /\ impl = "store"
    /\ lastOp' = [op |-> "onChangedLanguage", lang |-> "", fn |-> fn]
    /\ lastGet' = NoGet
    /\ result' = NoResult
    /\ callbacks' = addCallback(callbacks, fn)
    /\ fired' = NoneFired
    /\ UNCHANGED <<harnessVars, currentLanguage, fallbackLanguage, storeLanguage,
                   impl, supportedLanguages, persisted, loaderVars, 
                   saveDirty, loadDirty, cacheDirty, signalCache,
                   observableCache, classImplVars>>

\* The RevokeFn returned by onChangedLanguage(fn); had: fn was registered
\* when it was called.  A call for a function that was never registered
\* leaves the session as a registration followed by two calls does.
Revoke(fn) ==
    /\ impl = "store"
    /\ lastOp' = [op |-> "revoke", lang |-> "", fn |-> fn,
                  had |-> fn \in callbacks]
    /\ lastGet' = NoGet
    /\ result' = NoResult
    /\ callbacks' = deleteCallback(callbacks, fn)
    /\ fired' = NoneFired
    /\ UNCHANGED <<harnessVars, currentLanguage, fallbackLanguage, storeLanguage,
                   impl, supportedLanguages, persisted, loaderVars, 
                   saveDirty, loadDirty, cacheDirty, signalCache,
                   observableCache, classImplVars>>

\* instance.getSignal(key, ...values): getCachedSignal
GetSignal(key, values) ==
    /\ impl = "store"
    /\ lastOp' = [op |-> "call", lang |-> ""]
    /\ lastGet' = NoGet
    /\ result' = NoResult
    /\ signalCache' =
           IF getCacheKey(key, values) \in DOMAIN signalCache
           THEN signalCache
           ELSE MapSet(signalCache, getCacheKey(key, values),
                       [key |-> key, args |-> values])
    /\ fired' = NoneFired
    /\ UNCHANGED <<harnessVars, currentLanguage, fallbackLanguage, storeLanguage,
                   impl, supportedLanguages, persisted, loaderVars, callbacks,  saveDirty, loadDirty, cacheDirty, observableCache,
                   classImplVars>>

\* instance.get$(key, ...values): getCachedObservable, which asks
\* getCachedSignal for the signal when it has no observable for the key
GetObservable(key, values) ==
    /\ impl = "store"
    /\ lastOp' = [op |-> "call", lang |-> ""]
    /\ lastGet' = NoGet
    /\ result' = NoResult
    /\ LET cacheKey == getCacheKey(key, values)
           made == [key |-> key, args |-> values]
       IN IF cacheKey \in DOMAIN observableCache
          THEN UNCHANGED <<signalCache, observableCache>>
          ELSE /\ signalCache' =
                      IF cacheKey \in DOMAIN signalCache
                      THEN signalCache
                      ELSE MapSet(signalCache, cacheKey, made)
               /\ observableCache' =
                      MapSet(observableCache, cacheKey,
                             IF cacheKey \in DOMAIN signalCache
                             THEN signalCache[cacheKey]
                             ELSE made)
    /\ fired' = NoneFired
    /\ UNCHANGED <<harnessVars, currentLanguage, fallbackLanguage, storeLanguage,
                   impl, supportedLanguages, persisted, loaderVars, callbacks,  saveDirty, loadDirty, cacheDirty, classImplVars>>

(***************************************************************************)
(* The handles with their identity.  A signal or observable is known by    *)
(* the order in which it was created.                                      *)
(***************************************************************************)
MaxHandles == 4

\* Argument lists of which the last two serialize identically.
SharedArgLists == {<<>>, <<Null>>, <<Undefined>>}

\* computed(() => translateFn()(key, values)), the n-th object created
Computed(n, key, values) ==
    [t |-> "signal", id |-> n, key |-> key, args |-> values]

\* toObservable(signal).pipe(...), the n-th object created
ToObservable(n, signal) ==
    [t |-> "observable", id |-> n, key |-> signal.key, args |-> signal.args,
     signal |-> signal.id]

\* Mutant: the signal cache never has the key.
hasNever(cache, cacheKey) == FALSE

\* cache.has(cacheKey)
has(cache, cacheKey) == cacheKey \in DOMAIN cache

\* getCachedSignal(key, values, translateFn) on signals: the signal cache
\* it leaves and the number of objects created by then.
getCachedSignal(key, values, signals, n) ==
    IF has(signals, getCacheKey(key, values))
    THEN [cache |-> signals, created |-> n]
    ELSE [cache |-> MapSet(signals, getCacheKey(key, values),
                           Computed(n + 1, key, values)),
          created |-> n + 1]

\* instance.getSignal(key, ...values) of the store with handle caches
GetCachedSignal(key, values) ==
    /\ impl = "store"
    /\ lastOp' = [op |-> "getSignal", lang |-> "",
                  args |-> values, cacheKey |-> getCacheKey(key, values)]
    /\ lastGet' = NoGet
    /\ LET got == getCachedSignal(key, values, signalCache, created)
       IN /\ got.created <= MaxHandles
          /\ signalCache' = got.cache
          /\ created' = got.created
          /\ result' = got.cache[getCacheKey(key, values)]
    /\ fired' = NoneFired
    /\ UNCHANGED <<renderVars, callerVars, registryVars, envVars, streamVars,
                   currentLanguage,
                   fallbackLanguage, storeLanguage, impl, supportedLanguages,
                   persisted, loaderVars, callbacks, saveDirty, loadDirty,
                   cacheDirty, observableCache, classImplVars>>

\* instance.get$(key, ...values) of the store with handle caches:
\* getCachedObservable, which asks getCachedSignal for the signal when it
\* has no observable for the key
GetCachedObservable(key, values) ==
    /\ impl = "store"
    /\ lastOp' = [op |-> "get$", lang |-> "",
                  args |-> values, cacheKey |-> getCacheKey(key, values)]
    /\ lastGet' = NoGet
    /\ LET cacheKey == getCacheKey(key, values)
           got == getCachedSignal(key, values, signalCache, created)
       IN IF has(observableCache, cacheKey)
          THEN /\ result' = observableCache[cacheKey]
               /\ UNCHANGED <<signalCache, observableCache, created>>
          ELSE /\ got.created + 1 <= MaxHandles
               /\ signalCache' = got.cache
               /\ created' = got.created + 1
               /\ observableCache' =
                      MapSet(observableCache, cacheKey,
                             ToObservable(got.created + 1, got.cache[cacheKey]))
               /\ result' = observableCache'[cacheKey]
    /\ fired' = NoneFired
    /\ UNCHANGED <<renderVars, callerVars, registryVars, envVars, streamVars,
                   currentLanguage,
                   fallbackLanguage, storeLanguage, impl, supportedLanguages,
                   persisted, loaderVars, callbacks, saveDirty, loadDirty,
                   cacheDirty, classImplVars>>

\* instance.getSignal(key, ...values) of the store without handle caches
GetSignalBase(key, values) ==
    /\ impl = "base"
    /\ lastOp' = [op |-> "getSignal", lang |-> "",
                  args |-> values, cacheKey |-> getCacheKey(key, values)]
    /\ lastGet' = NoGet
    /\ created + 1 <= MaxHandles
    /\ created' = created + 1
    /\ result' = Computed(created + 1, key, values)
    /\ fired' = NoneFired
    /\ UNCHANGED <<renderVars, callerVars, registryVars, envVars, streamVars,
                   currentLanguage,
                   fallbackLanguage, storeLanguage, impl, supportedLanguages,
                   persisted, loaderVars, callbacks, saveDirty, loadDirty,
                   cacheDirty, signalCache, observableCache, classImplVars>>

\* instance.get$(key, ...values) of the store without handle caches
GetObservableBase(key, values) ==
    /\ impl = "base"
    /\ lastOp' = [op |-> "get$", lang |-> "",
                  args |-> values, cacheKey |-> getCacheKey(key, values)]
    /\ lastGet' = NoGet
    /\ created + 2 <= MaxHandles
    /\ created' = created + 2
    /\ result' = ToObservable(created + 2, Computed(created + 1, key, values))
    /\ fired' = NoneFired
    /\ UNCHANGED <<renderVars, callerVars, registryVars, envVars, streamVars,
                   currentLanguage,
                   fallbackLanguage, storeLanguage, impl, supportedLanguages,
                   persisted, loaderVars, callbacks, saveDirty, loadDirty,
                   cacheDirty, signalCache, observableCache, classImplVars>>

\* requestCache.clearRequestCache() / translationRequestCache.clear()
clearRequestCache(cache) == {}

\* languageChangedCallbacks().clear()
clearCallbacks(cbs) == {}

\* instance.dispose(); again: the session had been disposed of before.  The
\* first destroy$.next() ends the live load subscriptions.  A subscription
\* made after it is not ended by a later dispose(), the subject having
\* completed: it stays live on a request that is no longer in the cache (at
\* most one such request per language is followed).  next() and complete()
\* on the completed subject do nothing and raise nothing.  The maps and the
\* set are cleared in place, which notifies no effect.
Dispose ==
    /\ IsStore
    /\ subs \cap orphanSubs = {}
    /\ lastOp' = [op |-> "dispose", lang |-> "", again |-> destroyed]
    /\ lastGet' = NoGet
    /\ result' = NoResult
    /\ destroyed' = TRUE
    /\ subs' = {}
    /\ orphanSubs' = IF destroyed THEN orphanSubs \cup subs ELSE {}
    /\ http' = [l \in AllLangs |->
                   IF destroyed /\ l \in subs THEN "idle" ELSE http[l]]
    /\ translationRequestCache' = clearRequestCache(translationRequestCache)
    /\ signalCache' = clear(signalCache)
    /\ observableCache' = clear(observableCache)
    /\ callbacks' = clearCallbacks(callbacks)
    /\ storeLanguage' = clear(storeLanguage)
    /\ loadingStates' = clear(loadingStates)
    /\ fired' = NoneFired
    /\ UNCHANGED <<harnessVars, currentLanguage, fallbackLanguage, impl,
                   supportedLanguages, persisted, fetchCount, loadOutcome,
                   saveDirty, loadDirty, cacheDirty, classImplVars>>

\* dispose() called on a session that has not been disposed of.
FirstDispose == ~destroyed /\ Dispose

\* A session whose owner calls dispose() once at most.
NextStore ==
    \/ \E lang \in AllLangs : SetLanguageStore(lang)
    \/ RunSaveEffect
    \/ RunLoadEffect
    \/ RunCacheEffect
    \/ \E lang \in AllLangs, ok \in BOOLEAN : HttpCompleteStore(lang, ok)
    \/ \E fn \in CallbackIds : AddCallback(fn)
    \/ \E fn \in CallbackIds : Revoke(fn)
    \/ \E key \in HandleKeys, values \in HandleArgLists : GetSignal(key, values)
    \/ \E key \in HandleKeys, values \in HandleArgLists : GetObservable(key, values)
    \/ \E key \in ResolveKeys, values \in ResolveArgLists : GetStore(key, values)
    \/ FirstDispose

SpecStore == InitStore /\ [][NextStore]_vars

\* A session with its change callbacks, whose owner may call dispose()
\* again and again.  Nobody reads translations, and the auto-save and the
\* cache-clearing effect, which touch nothing that loading or the
\* callbacks depend on, do not run.
NextCallbacks ==
    \/ \E lang \in Langs : SetLanguageStore(lang)
    \/ RunLoadEffect
    \/ \E lang \in Langs, ok \in BOOLEAN : HttpCompleteStore(lang, ok)
    \/ \E lang \in Langs, ok \in BOOLEAN : OrphanComplete(lang, ok)
    \/ \E fn \in AllCallbacks : AddCallback(fn)
    \/ \E fn \in AllCallbacks : Revoke(fn)
    \/ Dispose

SpecCallbacks == InitStore /\ [][NextCallbacks]_vars

\* A session whose owner reads translations and handles and may call
\* dispose() again and again.  The auto-save and the cache-clearing effect
\* do not run, no callback is revoked, and the GET of a request that a
\* dispose() dropped from the cache stays in flight.
NextDispose ==
    \/ \E lang \in Langs : SetLanguageStore(lang)
    \/ RunLoadEffect
    \/ \E lang \in Langs, ok \in BOOLEAN : HttpCompleteStore(lang, ok)
    \/ \E fn \in CallbackIds : AddCallback(fn)
    \/ \E key \in HandleKeys, values \in HandleArgLists : GetSignal(key, values)
    \/ \E key \in HandleKeys, values \in HandleArgLists : GetObservable(key, values)
    \/ \E key \in ResolveKeys, values \in ResolveArgLists : GetStore(key, values)
    \/ Dispose

SpecDispose == InitStore /\ [][NextDispose]_vars

\* A signal store of either variant whose owner asks for handles, switches
\* the language and disposes of the session once at most.  Nothing is
\* loaded: the load effect and the auto-save effect do not run.
InitHandles == InitSignalStore("store") \/ InitSignalStore("base")

NextHandles ==
    \/ \E lang \in Langs : SetLanguageStore(lang)
    \/ RunCacheEffect
    \/ \E key \in HandleKeys, values \in SharedArgLists :
           GetCachedSignal(key, values)
    \/ \E key \in HandleKeys, values \in SharedArgLists :
           GetCachedObservable(key, values)
    \/ \E key \in HandleKeys, values \in SharedArgLists :
           GetSignalBase(key, values)
    \/ \E key \in HandleKeys, values \in SharedArgLists :
           GetObservableBase(key, values)
    \/ FirstDispose

SpecHandles == InitHandles /\ [][NextHandles]_vars


(***************************************************************************)
(* Class implementation (I18nTranslateImplement).                          *)
(*                                                                         *)
(* The resource runs its loader some time after currentLanguage changed    *)
(* (resDirty).  The loader awaits the first value of the language's cached *)
(* observable; a later run of the loader supersedes the one before it, so  *)
(* the resource awaits one language at most (resPending).  The effect that *)
(* stores the value runs some time after the value changed (effDirty).     *)
(***************************************************************************)
\* The lists a caller passes to setLanguageSupport.
SupportLists == {<<>>, <<"vi">>, <<"vi", "en">>}

\* An array object with its contents.
Arr(v) == [t |-> "array", v |-> v]

\* The arguments of setLanguageSupport: a list, or none.
SupportArgs == {Undefined} \cup {Arr(l) : l \in SupportLists}

\* The longest array a caller builds by pushing to one it holds.
MaxList == 3

\* new I18nTranslateImplement(i18nConfig)
NewImplement(savedLangs, configs, files) ==
    /\ impl = "class"
    /\ \E savedLang \in savedLangs, config \in configs :
           /\ initializeConfig(savedLang, MergedConfig(config))
           /\ i18nConfig = config
    /\ serverFiles \in files
    /\ storeLanguage = <<>>
    /\ loadingStates = <<>>
    /\ translationRequestCache = {}
    /\ http = [l \in AllLangs |-> "idle"]
    /\ subs = {}
    /\ orphanSubs = {}
    /\ fetchCount = [l \in AllLangs |-> 0]
    /\ loadOutcome = [l \in AllLangs |-> "none"]
    /\ destroyed = FALSE
    /\ callbacks = {}
    /\ fired = NoneFired
    /\ saveDirty = FALSE
    /\ loadDirty = FALSE
    /\ cacheDirty = FALSE
    /\ signalCache = <<>>
    /\ observableCache = <<>>
    /\ resDirty = TRUE
    /\ resPending = ""
    /\ resValue = Undefined
    /\ effDirty = TRUE
    /\ eventLanguageLoaded = ""
    /\ lastGet = NoGet
    /\ lastOp = NoOp
    /\ tpl = <<>>
    /\ args = <<>>
    /\ out = NotRendered
    /\ HarnessIdle

\* A session of the class constructed with no field of its own.
InitClass == NewImplement(SavedLangs, {<<>>}, {AssetFiles})

\* I18nTranslateImplement.setLanguage: the language is written to storage
\* in the call itself.  Setting #currentLanguage schedules the resource's
\* loader and the effect of a subscriber of a get$ handle.
SetLanguageClass(lang) ==
    /\ impl = "class"
    /\ lastOp' = [op |-> "setLanguage", lang |-> lang]
    /\ lastGet' = NoGet
    /\ result' = NoResult
    /\ IF \/ ~IsSupported(supportedLanguages, lang)
          \/ IsCurrent(currentLanguage, lang)
       THEN UNCHANGED <<currentLanguage, persisted, resDirty, langDirty>>
       ELSE /\ currentLanguage' = lang
            /\ persisted' = lang
            /\ resDirty' = TRUE
            /\ langDirty' = (langDirty \/ stream # NoStream)
    /\ UNCHANGED <<renderVars, callerVars, registryVars, envVars, created, stream,
                   waitLang, waitDirty, emitted,
                   fallbackLanguage, storeLanguage, impl,
                   supportedLanguages, loaderVars, storeImplVars, resPending,
                   resValue, effDirty, eventLanguageLoaded>>

\* !langs?.length
NoLength(langs) == langs = Undefined \/ Len(langs.v) = 0

\* Mutant: the argument array is kept as it is, without copying it.
AssignIsSameArray(langs) == TRUE

\* [...langs] is a new array object, never the array langs itself.
SpreadIsSameArray(langs) == FALSE

\* I18nTranslateImplement.setLanguageSupport.  keeps: the caller keeps a
\* reference to the array it passed.
SetLanguageSupport(langs, keeps) ==
    /\ impl = "class"
    /\ lastOp' = [op |-> "setLanguageSupport", lang |-> "", langs |-> langs]
    /\ lastGet' = NoGet
    /\ result' = NoResult
    /\ supportedLanguages' =
           IF NoLength(langs) THEN supportedLanguages ELSE langs.v
    /\ heldList' = IF keeps THEN langs ELSE Undefined
    /\ heldShared' = (keeps /\ ~NoLength(langs) /\ SpreadIsSameArray(langs.v))
    /\ UNCHANGED <<renderVars, registryVars, envVars, created, streamVars, currentLanguage, fallbackLanguage, storeLanguage,
                   impl, persisted, loaderVars, storeImplVars, classImplVars>>

\* I18nTranslateImplement.getLanguageSupport: the caller is handed a copy.
GetLanguageSupport ==
    /\ impl = "class"
    /\ lastOp' = [op |-> "getLanguageSupport", lang |-> ""]
    /\ lastGet' = NoGet
    /\ result' = Arr(supportedLanguages)
    /\ heldList' = Arr(supportedLanguages)
    /\ heldShared' = SpreadIsSameArray(supportedLanguages)
    /\ UNCHANGED <<renderVars, registryVars, envVars, created, streamVars, currentLanguage, fallbackLanguage, storeLanguage,
                   impl, supportedLanguages, persisted, loaderVars,
                   storeImplVars, classImplVars>>

\* What a push('ja') or a pop() makes of an array's contents.
Mutations(v) ==
    (IF Len(v) < MaxList THEN {Append(v, "ja")} ELSE {})
        \cup (IF Len(v) > 0 THEN {SubSeq(v, 1, Len(v) - 1)} ELSE {})

\* The caller changes the array it holds; the session's list changes with
\* it if it is that very array.
MutateList(contents) ==
    /\ impl = "class"
    /\ heldList # Undefined
    /\ contents \in Mutations(heldList.v)
    /\ lastOp' = [op |-> "mutate", lang |-> ""]
    /\ lastGet' = NoGet
    /\ result' = NoResult
    /\ heldList' = Arr(contents)
    /\ supportedLanguages' = IF heldShared THEN contents ELSE supportedLanguages
    /\ UNCHANGED <<renderVars, registryVars, envVars, created, streamVars, heldShared, currentLanguage, fallbackLanguage,
                   storeLanguage, impl, persisted, loaderVars, storeImplVars,
                   classImplVars>>

\* The loader of #translateLoadResource for the current language:
\* translationRequests[lang] ??= ..., then firstValueFrom of it.  A
\* buffered value resolves the resource at once; otherwise the resource is
\* loading, its value undefined, until the GET ends.
ResourceLoad ==
    /\ impl = "class"
    /\ resDirty
    /\ lastOp' = [op |-> "effect", lang |-> ""]
    /\ lastGet' = NoGet
    /\ result' = NoResult
    /\ resDirty' = FALSE
    /\ LET lang == currentLanguage
       IN /\ translationRequestCache' = translationRequestCache \cup {lang}
          /\ IF ShareState(lang) = "done"
             THEN /\ resPending' = ""
                  /\ resValue' = [lang |-> lang, data |-> ServerFile(lang)]
                  /\ effDirty' = TRUE
                  /\ UNCHANGED <<http, fetchCount>>
             ELSE /\ ShareState(lang) = "idle" => fetchCount[lang] < MaxFetch
                  /\ http' = [http EXCEPT ![lang] = "inflight"]
                  /\ fetchCount' =
                         IF ShareState(lang) = "idle"
                         THEN [fetchCount EXCEPT ![lang] = @ + 1]
                         ELSE fetchCount
                  /\ resPending' = lang
                  /\ resValue' = Undefined
                  /\ effDirty' = (effDirty \/ resValue # Undefined)
    /\ UNCHANGED <<harnessVars, currentLanguage, fallbackLanguage, storeLanguage,
                   impl, supportedLanguages, persisted, loadingStates, subs,
                   loadOutcome, destroyed, orphanSubs, storeImplVars,
                   eventLanguageLoaded>>

\* The GET for lang ends: with the file (ok) or with a transport error,
\* which catchError turns into the bundle {}.
HttpCompleteClass(lang, ok) ==
    /\ impl = "class"
    /\ http[lang] = "inflight"
    /\ lastOp' = [op |-> "http", lang |-> ""]
    /\ lastGet' = NoGet
    /\ result' = NoResult
    /\ http' = [http EXCEPT ![lang] = ShareAfter(ok)]
    /\ loadOutcome' = [loadOutcome EXCEPT ![lang] = IF ok THEN "ok" ELSE "error"]
    /\ IF resPending = lang
       THEN /\ resPending' = ""
            /\ resValue' = [lang |-> lang, data |-> Delivered(lang, ok)]
            /\ effDirty' = TRUE
       ELSE UNCHANGED <<resPending, resValue, effDirty>>
    /\ UNCHANGED <<harnessVars, currentLanguage, fallbackLanguage, storeLanguage,
                   impl, supportedLanguages, persisted, loadingStates,
                   translationRequestCache, subs, fetchCount, destroyed,
                   orphanSubs, storeImplVars, resDirty, eventLanguageLoaded>>

\* #translateLoadResourceEffect.  Setting #eventLanguageLoaded to another
\* value schedules the effect of a subscriber waiting for a load.
RunStoreEffect ==
    /\ impl = "class"
    /\ effDirty
    /\ lastOp' = [op |-> "effect", lang |-> ""]
    /\ lastGet' = NoGet
    /\ result' = NoResult
    /\ effDirty' = FALSE
    /\ IF /\ resValue # Undefined
          /\ isDifferentTranslateData(MapGet(storeLanguage, resValue.lang),
                                      resValue.data)
       THEN /\ storeLanguage' = MapSet(storeLanguage, resValue.lang, resValue.data)
            /\ eventLanguageLoaded' = resValue.lang
            /\ waitDirty' = (\/ waitDirty
                             \/ /\ waitLang # ""
                                /\ eventLanguageLoaded # resValue.lang)
       ELSE UNCHANGED <<storeLanguage, eventLanguageLoaded, waitDirty>>
    /\ UNCHANGED <<renderVars, callerVars, registryVars, envVars, created, stream,
                   langDirty, waitLang, emitted,
                   currentLanguage, fallbackLanguage, impl,
                   supportedLanguages, persisted, loaderVars, storeImplVars,
                   resDirty, resPending, resValue>>

\* I18nTranslateImplement.destroy
DestroyClass ==
    /\ impl = "class"
    /\ lastOp' = [op |-> "dispose", lang |-> ""]
    /\ lastGet' = NoGet
    /\ result' = NoResult
    /\ destroyed' = TRUE
    /\ storeLanguage' = <<>>
    /\ translationRequestCache' = {}
    /\ UNCHANGED <<harnessVars, currentLanguage, fallbackLanguage, impl,
                   supportedLanguages, persisted, loadingStates, http, subs,
                   fetchCount, loadOutcome, orphanSubs, storeImplVars,
                   classImplVars>>

NextClass ==
    \/ \E lang \in AllLangs : SetLanguageClass(lang)
    \/ \E langs \in SupportArgs : SetLanguageSupport(langs, FALSE)
    \/ ResourceLoad
    \/ \E lang \in AllLangs, ok \in BOOLEAN : HttpCompleteClass(lang, ok)
    \/ RunStoreEffect
    \/ DestroyClass
    \/ \E key \in ResolveKeys, values \in ResolveArgLists : GetClass(key, values)

SpecClass == InitClass /\ [][NextClass]_vars

(***************************************************************************)
(* The supported list of a class session and the arrays its caller holds.  *)
(***************************************************************************)
ListContents == SeqsUpTo(AllLangs, MaxList)

NextSupport ==
    \/ \E lang \in AllLangs : SetLanguageClass(lang)
    \/ \E langs \in SupportArgs, keeps \in BOOLEAN :
           SetLanguageSupport(langs, keeps)
    \/ GetLanguageSupport
    \/ \E contents \in ListContents : MutateList(contents)

SpecSupport == InitClass /\ [][NextSupport]_vars

(***************************************************************************)
(* A subscriber of a handle of I18nTranslateImplement.get$.  The handle is *)
(* asked for and subscribed to where effect() may be called.               *)
(***************************************************************************)
MaxEmit == 3

\* A key neither server file holds.
K_z == <<"z">>

StreamKeys == {K_k, K_z}

\* What #translateLoadResource.isLoading() may return: true while the
\* loader awaits a language; between a change of the language and the run
\* of the loader the resource counts as loading or not, as the version of
\* the framework has it.
IsLoadingValues == {resPending # ""} \cup (IF resDirty THEN {TRUE} ELSE {})

\* get$(key, ...values) and subscribe: the effect of currentLang$ is
\* created and will run.
Subscribe(key, values) ==
    /\ impl = "class"
    /\ stream = NoStream
    /\ lastOp' = [op |-> "subscribe", lang |-> ""]
    /\ lastGet' = NoGet
    /\ result' = NoResult
    /\ stream' = [t |-> "observable", key |-> key, args |-> values]
    /\ langDirty' = TRUE
    /\ UNCHANGED <<renderVars, callerVars, registryVars, envVars, created, waitLang,
                   waitDirty, emitted, currentLanguage, fallbackLanguage,
                   storeLanguage, impl, sessionVars>>

\* The effect of currentLang$ hands the current language to switchMap,
\* which drops the inner observable it had and takes the one for this
\* language: the text at once when the language has a bundle or nothing is
\* loading, the text on the load's completion otherwise.  No operator
\* compares a value with the one before it.
RunLangEffect ==
    /\ impl = "class"
    /\ stream # NoStream
    /\ langDirty
    /\ lastOp' = [op |-> "effect", lang |-> ""]
    /\ lastGet' = NoGet
    /\ result' = NoResult
    /\ langDirty' = FALSE
    /\ \E loading \in IsLoadingValues :
           IF ~AlreadyLoaded(storeLanguage, currentLanguage) /\ loading
           THEN /\ waitLang' = currentLanguage
                /\ waitDirty' = TRUE
                /\ UNCHANGED <<emitted, storeLanguage>>
           ELSE /\ Len(emitted) < MaxEmit
                /\ emitted' =
                       Append(emitted,
                              getTranslationText(stream.key, currentLanguage,
                                                 stream.args, fallbackLanguage,
                                                 storeLanguage))
                /\ storeLanguage' =
                       getTranslationTextStore(stream.key, currentLanguage,
                                               stream.args, fallbackLanguage,
                                               storeLanguage)
                /\ waitLang' = ""
                /\ waitDirty' = FALSE
    /\ UNCHANGED <<renderVars, callerVars, registryVars, envVars, created, stream,
                   currentLanguage, fallbackLanguage, impl, sessionVars>>

\* The effect of languageLoaded$: when the language loaded last is the one
\* waited for, the text is emitted and the inner observable completes.
RunWaitEffect ==
    /\ impl = "class"
    /\ waitLang # ""
    /\ waitDirty
    /\ lastOp' = [op |-> "effect", lang |-> ""]
    /\ lastGet' = NoGet
    /\ result' = NoResult
    /\ waitDirty' = FALSE
    /\ IF eventLanguageLoaded = waitLang
       THEN /\ Len(emitted) < MaxEmit
            /\ emitted' =
                   Append(emitted,
                          getTranslationText(stream.key, waitLang, stream.args,
                                             fallbackLanguage, storeLanguage))
            /\ storeLanguage' =
                   getTranslationTextStore(stream.key, waitLang, stream.args,
                                           fallbackLanguage, storeLanguage)
            /\ waitLang' = ""
       ELSE UNCHANGED <<emitted, storeLanguage, waitLang>>
    /\ UNCHANGED <<renderVars, callerVars, registryVars, envVars, created, stream,
                   langDirty, currentLanguage, fallbackLanguage, impl,
                   sessionVars>>

NextStream ==
    \/ \E lang \in Langs : SetLanguageClass(lang)
    \/ ResourceLoad
    \/ \E lang \in Langs, ok \in BOOLEAN : HttpCompleteClass(lang, ok)
    \/ RunStoreEffect
    \/ \E key \in StreamKeys : Subscribe(key, <<>>)
    \/ RunLangEffect
    \/ RunWaitEffect

SpecStream == InitClass /\ [][NextStream]_vars

(***************************************************************************)
(* A subscriber of get$ while the first language of the session loads.     *)
(* The language is not changed, so that every fetch started can end and    *)
(* every effect scheduled can run: the effects and the end of the GET are  *)
(* fair, the calls of the application are not.  The loader's effect was    *)
(* scheduled at construction, before any subscriber's, and runs first.     *)
(***************************************************************************)
RunLangEffectAfterLoader == ~resDirty /\ RunLangEffect

HttpEndsClass == \E lang \in Langs, ok \in BOOLEAN : HttpCompleteClass(lang, ok)

NextReactive ==
    \/ ResourceLoad
    \/ HttpEndsClass
    \/ RunStoreEffect
    \/ \E key \in StreamKeys, values \in ResolveArgLists : Subscribe(key, values)
    \/ RunLangEffectAfterLoader
    \/ RunWaitEffect
    \/ \E key \in StreamKeys, values \in ResolveArgLists : GetClass(key, values)

FairReactive ==
    /\ WF_vars(ResourceLoad)
    /\ WF_vars(HttpEndsClass)
    /\ WF_vars(RunStoreEffect)
    /\ WF_vars(RunLangEffectAfterLoader)
    /\ WF_vars(RunWaitEffect)

SpecReactive == InitClass /\ [][NextReactive]_vars /\ FairReactive

(***************************************************************************)
(* The fallback scenario: supported [en, vi], default and fallback en, the *)
(* server holding {welcome: "Welcome"} for en and one of ViBundles for vi. *)
(***************************************************************************)
K_welcome == <<"w", "e", "l", "c", "o", "m", "e">>

S_Welcome == <<"W", "e", "l", "c", "o", "m", "e">>

K_other == <<"o", "t", "h", "e", "r">>

WelcomeConfig ==
    [defaultLanguage |-> "en", fallbackLanguage |-> "en",
     languageSupported |-> <<"en", "vi">>]

\* What vi.json may be: {}, a file without the key, a file with a text of
\* its own for the key, with the key itself as the text, with the empty
\* text.
ViBundles ==
    { EmptyBundle,
      K_other :> Str(<<"x">>),
      K_welcome :> Str(<<"C", "h", "a", "o">>),
      K_welcome :> Str(K_welcome),
      K_welcome :> Str(<<>>) }

WelcomeFiles ==
    { [lang \in AllLangs |->
          IF lang = "en" THEN K_welcome :> Str(S_Welcome)
          ELSE IF lang = "vi" THEN b
          ELSE EmptyBundle] : b \in ViBundles }

InitFallback ==
    \/ initInstanceI18n("store", {""}, {WelcomeConfig}, WelcomeFiles)
    \/ NewImplement({""}, {WelcomeConfig}, WelcomeFiles)

NextFallback ==
    \/ \E lang \in Langs : SetLanguageStore(lang)
    \/ RunLoadEffect
    \/ \E lang \in Langs, ok \in BOOLEAN : HttpCompleteStore(lang, ok)
    \/ GetStore(K_welcome, <<>>)
    \/ \E lang \in Langs : SetLanguageClass(lang)
    \/ ResourceLoad
    \/ \E lang \in Langs, ok \in BOOLEAN : HttpCompleteClass(lang, ok)
    \/ RunStoreEffect
    \/ GetClass(K_welcome, <<>>)

SpecFallback == InitFallback /\ [][NextFallback]_vars

(***************************************************************************)
(* Sessions constructed from the configurations a caller may pass and the  *)
(* language storage may hold, and the public operations on them.  A field  *)
(* a configuration does not state is absent from its record; a field       *)
(* stated as undefined is not among them.                                  *)
(***************************************************************************)
\* name: value, or nothing when the caller leaves the field out ("").
Stated(name, value) == IF value = "" THEN <<>> ELSE name :> value

ConfigLists == {<<>>, <<"vi">>, <<"en", "vi">>, <<"vi", "en">>}

Configs ==
    { Stated("defaultLanguage", d) @@ Stated("fallbackLanguage", f)
          @@ ("languageSupported" :> l) :
      d \in {""} \cup AllLangs, f \in {""} \cup Langs, l \in ConfigLists }

InitConfig ==
    \/ initInstanceI18n("store", SavedLangs, Configs, {AssetFiles})
    \/ NewImplement(SavedLangs, Configs, {AssetFiles})

NextConfig ==
    \/ \E lang \in AllLangs : SetLanguageStore(lang)
    \/ \E lang \in AllLangs : SetLanguageClass(lang)
    \/ \E langs \in SupportArgs : SetLanguageSupport(langs, FALSE)
    \/ GetLanguageSupport
    \/ GetStore(K_k, <<>>)
    \/ GetClass(K_k, <<>>)
    \/ \E fn \in CallbackIds : AddCallback(fn)
    \/ FirstDispose
    \/ DestroyClass

SpecConfig == InitConfig /\ [][NextConfig]_vars

(***************************************************************************)
(* Sessions over the README's example file, which nests "title" under      *)
(* "home".                                                                 *)
(***************************************************************************)
\* A JSON object that is the value of a bundle entry.
Nested(members) == [t |-> "obj", v |-> members]

K_home == <<"h", "o", "m", "e">>

K_title == <<"t", "i", "t", "l", "e">>

K_home_title == K_home \o <<".">> \o K_title

S_HomePage == <<"H", "o", "m", "e", " ", "P", "a", "g", "e">>

ReadmeFiles ==
    [lang \in AllLangs |->
        IF lang = "en"
        THEN (K_welcome :> Str(S_Welcome))
                 @@ (K_home :> Nested(K_title :> Str(S_HomePage)))
        ELSE EmptyBundle]

NestedKeys == {K_home_title, K_home, K_welcome}

InitNested ==
    \/ initInstanceI18n("store", {""}, {WelcomeConfig}, {ReadmeFiles})
    \/ NewImplement({""}, {WelcomeConfig}, {ReadmeFiles})

NextNested ==
    \/ \E lang \in Langs : SetLanguageStore(lang)
    \/ RunLoadEffect
    \/ \E lang \in Langs, ok \in BOOLEAN : HttpCompleteStore(lang, ok)
    \/ \E key \in NestedKeys : GetStore(key, <<>>)
    \/ \E lang \in Langs : SetLanguageClass(lang)
    \/ ResourceLoad
    \/ \E lang \in Langs, ok \in BOOLEAN : HttpCompleteClass(lang, ok)
    \/ RunStoreEffect
    \/ \E key \in NestedKeys : GetClass(key, <<>>)

SpecNested == InitNested /\ [][NextNested]_vars

(***************************************************************************)
(* get of either implementation for the keys of the resolution harness and  *)
(* a key that names another member every bundle object inherits.           *)
(***************************************************************************)
TotalKeys == ResolveKeys \cup {S_valueOf}

NextTotal ==
    \/ \E key \in TotalKeys, values \in ResolveArgLists : GetStore(key, values)
    \/ \E key \in TotalKeys, values \in ResolveArgLists : GetClass(key, values)

SpecTotal == InitResolve /\ [][NextTotal]_vars

(***************************************************************************)
(* The LRU handle cache (createLRUCache).  The Map is a sequence of        *)
(* entries in insertion order; an entry holds its cache key, its signal    *)
(* and the time it was last used.                                          *)
(***************************************************************************)
\* The largest maxSize a cache is created with.
MaxSize == 2

\* The latest time Date.now() returns; two calls may fall in one
\* millisecond.
MaxClock == 3

\* The keys asked for, the empty string among them.
LruKeys == {<<>>, <<"a">>, <<"b">>}

\* The entries a for...of over the Map visits.
LruEntries(entries) == {entries[i] : i \in 1..Len(entries)}

\* cache.has(cacheKey)
LruHas(entries, cacheKey) ==
    \E i \in 1..Len(entries) : entries[i].key = cacheKey

\* cached.lastUsed = now for the entry of cacheKey
LruTouch(entries, cacheKey, time) ==
    [i \in 1..Len(entries) |->
        IF entries[i].key = cacheKey
        THEN [entries[i] EXCEPT !.lastUsed = time]
        ELSE entries[i]]

\* cache.delete(cacheKey)
LruDelete(entries, cacheKey) ==
    SelectSeq(entries, LAMBDA e : e.key # cacheKey)

\* oldestKey when the loop of evictOldest has ended: the key of the first
\* entry, in iteration order, whose lastUsed no other entry is below; ''
\* for an empty Map.
OldestKey(entries) ==
    IF Len(entries) = 0 THEN <<>>
    ELSE LET i == CHOOSE i \in 1..Len(entries) :
                      /\ \A j \in 1..(i - 1) :
                             entries[j].lastUsed > entries[i].lastUsed
                      /\ \A j \in (i + 1)..Len(entries) :
                             entries[j].lastUsed >= entries[i].lastUsed
         IN entries[i].key

\* Mutant: the entry used last is the one evicted.
evictNewest(entries) ==
    IF Len(entries) = 0 THEN entries
    ELSE LET i == CHOOSE i \in 1..Len(entries) :
                      \A j \in 1..Len(entries) :
                          entries[j].lastUsed <= entries[i].lastUsed
         IN IF entries[i].key # <<>> THEN LruDelete(entries, entries[i].key)
            ELSE entries

\* evictOldest(): if (oldestKey) cache.delete(oldestKey) -- the empty
\* string is falsy.
evictOldest(entries) ==
    IF OldestKey(entries) # <<>>
    THEN LruDelete(entries, OldestKey(entries))
    ELSE entries

\* createLRUCache(maxSize)
InitLRU ==
    /\ lruMaxSize \in 1..MaxSize
    /\ lruCache = <<>>
    /\ lruClock = 0
    /\ result = NoResult
    /\ heldList = Undefined
    /\ heldShared = FALSE
    /\ RegistryIdle
    /\ created = 0
    /\ StreamIdle
    /\ serverFiles = AssetFiles
    /\ i18nConfig = Undefined
    /\ tpl = <<>>
    /\ args = <<>>
    /\ out = NotRendered
    /\ ResolveIdle

\* getCachedSignal(key, values, translateFn) of the LRU cache, called when
\* Date.now() is time.
LruGetCachedSignal(key, values, time) ==
    /\ time \in lruClock..MaxClock
    /\ lruClock' = time
    /\ lastOp' = [op |-> "lruGet", lang |-> "",
                  cacheKey |-> getCacheKey(key, values)]
    /\ IF LruHas(lruCache, getCacheKey(key, values))
       THEN /\ lruCache' = LruTouch(lruCache, getCacheKey(key, values), time)
            /\ result' = (CHOOSE e \in LruEntries(lruCache) :
                              e.key = getCacheKey(key, values)).signal
            /\ UNCHANGED created
       ELSE /\ created < MaxHandles
            /\ created' = created + 1
            /\ lruCache' =
                   Append(IF Len(lruCache) >= lruMaxSize
                          THEN evictOldest(lruCache) ELSE lruCache,
                          [key |-> getCacheKey(key, values),
                           signal |-> Computed(created + 1, key, values),
                           lastUsed |-> time])
            /\ result' = Computed(created + 1, key, values)
    /\ UNCHANGED <<renderVars, callerVars, registryVars, streamVars,
                   serverFiles, i18nConfig, lruMaxSize, resolveVars, impl,
                   sessionVars>>

\* clearCache()
LruClearCache ==
    /\ lruCache # <<>>
    /\ lruCache' = <<>>
    /\ lastOp' = [op |-> "lruClear", lang |-> ""]
    /\ result' = NoResult
    /\ UNCHANGED <<renderVars, callerVars, registryVars, streamVars, created,
                   serverFiles, i18nConfig, lruMaxSize, lruClock,
                   resolveVars, impl, sessionVars>>

NextLRU ==
    \/ \E key \in LruKeys, time \in 0..MaxClock :
           LruGetCachedSignal(key, <<>>, time)
    \/ LruClearCache

SpecLRU == InitLRU /\ [][NextLRU]_vars

(***************************************************************************)
(* The signal handles of a signal store whose bundles hold a key that      *)
(* ends the way a cache key of another key does.                           *)
(***************************************************************************)
\* 'k:[1]': a key equal to the cache key of key 'k' with the arguments [1].
K_k_1 == <<"k", ":", "[", "1", "]">>

CollidingKeys == {K_k, K_k_1}

CollidingArgLists == {<<>>, <<Num(1)>>}

\* en.json holds a text for both keys.
CollidingFiles ==
    [lang \in AllLangs |->
        IF lang = "en"
        THEN (K_k :> Str(<<"a", "{", "{", "0", "}", "}">>))
                 @@ (K_k_1 :> Str(<<"b">>))
        ELSE EmptyBundle]

InitColliding ==
    initInstanceI18n("store", {""}, {CSP_LANGUAGE_CONFIG}, {CollidingFiles})

NextColliding ==
    \/ \E lang \in Langs : SetLanguageStore(lang)
    \/ RunLoadEffect
    \/ \E lang \in Langs, ok \in BOOLEAN : HttpCompleteStore(lang, ok)
    \/ RunCacheEffect
    \/ \E key \in CollidingKeys, values \in CollidingArgLists :
           GetCachedSignal(key, values)

SpecColliding == InitColliding /\ [][NextColliding]_vars

(***************************************************************************)
(* The handle caches of a signal store whose language changes and whose    *)
(* bundles arrive.                                                         *)
(***************************************************************************)
NextInvalidate ==
    \/ \E lang \in Langs : SetLanguageStore(lang)
    \/ RunLoadEffect
    \/ \E lang \in Langs, ok \in BOOLEAN : HttpCompleteStore(lang, ok)
    \/ RunCacheEffect
    \/ \E key \in HandleKeys, values \in HandleArgLists :
           GetCachedSignal(key, values)
    \/ \E key \in HandleKeys, values \in HandleArgLists :
           GetCachedObservable(key, values)

SpecInvalidate == InitStore /\ [][NextInvalidate]_vars

(***************************************************************************)
(* A session of either implementation.                                     *)
(***************************************************************************)
InitSession == InitStore \/ InitClass

NextSession == NextStore \/ NextClass

SpecSession == InitSession /\ [][NextSession]_vars


(***************************************************************************)
(* The registries: the class registry (initializeI18n,                     *)
(* initializeI18nWithCustom, useI18nTranslate, resetI18n, I18nUtils), the  *)
(* store registry (initializeI18n, getInstanceI18n of the signal store)    *)
(* and the keyed registry (getInstanceI18nTranslate).  A session is known  *)
(* here by the order in which it was constructed, its class and its        *)
(* config.                                                                 *)
(***************************************************************************)
MaxSessions == 3

\* The classes a caller hands to initializeI18nWithCustom:
\* I18nTranslateImplement, a subclass of it and another I18nTranslate.
ImplementationClasses ==
    {"I18nTranslateImplement", "SubImplement", "CustomTranslate"}

\* The classes a caller uses as key of the keyed registry.
AbstractClasses == {"I18nTranslate", "CustomTranslate"}

\* The injector of a config: missing, one that provides neither HttpClient
\* nor LocalStorageService, one that provides both.
Injectors == {"none", "bare", "full"}

RegistryConfigs == [injector : Injectors, defaultLanguage : Langs]

\* The classes an object of class cls is an instance of.
Ancestors(cls) ==
    IF cls = "SubImplement" THEN {"SubImplement", "I18nTranslateImplement"}
    ELSE {cls}

\* Mutant: every instance passes for an instance of every class.
InstanceOfAlways(instance, ImplementationClass) == TRUE

\* instance instanceof ImplementationClass
InstanceOf(instance, ImplementationClass) ==
    ImplementationClass \in Ancestors(instance.cls)

\* The session built by the n-th construction.
Instance(n, cls, config) ==
    [t |-> "instance", id |-> n, cls |-> cls, config |-> config]

\* Mutant: constructing a session never raises.
ConstructorRaisesNever(config) == FALSE

\* new ImplementationClass(config) and initInstanceI18n(configure) raise
\* without an injector (I18nTranslate's constructor) and with one that
\* cannot provide HttpClient (injector.get, inject).
ConstructorRaises(config) == config.injector # "full"

\* { languageSupported, defaultLanguage: 'vi', ..., ...config }
mergeConfig(config) ==
    IF config = Undefined
    THEN [injector |-> "none", defaultLanguage |-> "vi"]
    ELSE config

\* What no registry operation touches.
facadeVars ==
    <<renderVars, callerVars, created, streamVars, envVars, currentLanguage, fallbackLanguage,
      storeLanguage, impl, sessionVars>>

\* initializeI18nWithCustom(ImplementationClass, config), called as op
InitializeWith(op, ImplementationClass, config) ==
    /\ impl = "none"
    /\ lastOp' = [op |-> op, lang |-> "", cls |-> ImplementationClass,
                  config |-> config]
    /\ lastGet' = NoGet
    /\ IF isInitialized
       THEN /\ result' =
                   IF InstanceOf(translateInstance, ImplementationClass)
                   THEN translateInstance
                   ELSE Error("Cannot reinitialize with different implementation type")
            /\ UNCHANGED <<translateInstance, isInitialized, constructed>>
       ELSE IF ConstructorRaises(config)
       THEN /\ result' = Error("constructor")
            /\ UNCHANGED <<translateInstance, isInitialized, constructed>>
       ELSE /\ constructed < MaxSessions
            /\ constructed' = constructed + 1
            /\ translateInstance' =
                   Instance(constructed + 1, ImplementationClass, config)
            /\ isInitialized' = TRUE
            /\ result' = translateInstance'
    /\ UNCHANGED <<instanceI18nGlobal, isInitializedFlag, storeI18nTranslate,
                   facadeVars>>

\* initializeI18n(config) of the class registry
InitializeI18n(config) ==
    InitializeWith("initializeI18n", "I18nTranslateImplement", config)

InitializeI18nWithCustom(ImplementationClass, config) ==
    InitializeWith("initializeI18nWithCustom", ImplementationClass, config)

\* Mutant: the class registry always takes itself as initialized.
notInitializedNever(flag, instance) == FALSE

\* !isInitialized || !translateInstance
notInitialized(flag, instance) == ~flag \/ instance = Null

\* useI18nTranslate() of the class registry, I18nUtils.get
UseI18nTranslate ==
    /\ impl = "none"
    /\ lastOp' = [op |-> "useI18nTranslate", lang |-> ""]
    /\ lastGet' = NoGet
    /\ result' = IF notInitialized(isInitialized, translateInstance)
                 THEN Error("Must call initializeI18n() first")
                 ELSE translateInstance
    /\ UNCHANGED <<registryVars, envVars, facadeVars>>

\* I18nUtils.safeGet: null where useI18nTranslate raises
SafeGet ==
    /\ impl = "none"
    /\ lastOp' = [op |-> "safeGet", lang |-> ""]
    /\ lastGet' = NoGet
    /\ result' = IF notInitialized(isInitialized, translateInstance)
                 THEN Null
                 ELSE translateInstance
    /\ UNCHANGED <<registryVars, envVars, facadeVars>>

\* resetI18n(), I18nUtils.reset
ResetI18n ==
    /\ impl = "none"
    /\ lastOp' = [op |-> "resetI18n", lang |-> ""]
    /\ lastGet' = NoGet
    /\ result' = NoResult
    /\ translateInstance' = Null
    /\ isInitialized' = FALSE
    /\ UNCHANGED <<instanceI18nGlobal, isInitializedFlag, storeI18nTranslate,
                   constructed, facadeVars>>

\* initializeI18n(configure) of the store registry.  The flag is set before
\* initInstanceI18n runs and taken back, with the instance, when it raises.
StoreInitializeI18n(configure) ==
    /\ impl = "none"
    /\ lastOp' = [op |-> "storeInitializeI18n", lang |-> "",
                  cls |-> "store", config |-> configure]
    /\ lastGet' = NoGet
    /\ IF configure.injector = "none"
       THEN /\ result' = Error("Missing Angular injector in configuration")
            /\ UNCHANGED <<instanceI18nGlobal, isInitializedFlag, constructed>>
       ELSE IF isInitializedFlag
       THEN /\ result' = instanceI18nGlobal
            /\ UNCHANGED <<instanceI18nGlobal, isInitializedFlag, constructed>>
       ELSE IF ConstructorRaises(configure)
       THEN /\ result' = Error("constructor")
            /\ isInitializedFlag' = FALSE
            /\ instanceI18nGlobal' = Null
            /\ UNCHANGED constructed
       ELSE /\ constructed < MaxSessions
            /\ constructed' = constructed + 1
            /\ isInitializedFlag' = TRUE
            /\ instanceI18nGlobal' = Instance(constructed + 1, "store", configure)
            /\ result' = instanceI18nGlobal'
    /\ UNCHANGED <<translateInstance, isInitialized, storeI18nTranslate,
                   facadeVars>>

\* getInstanceI18n() of the store registry
StoreGetInstanceI18n ==
    /\ impl = "none"
    /\ lastOp' = [op |-> "storeGetInstanceI18n", lang |-> ""]
    /\ lastGet' = NoGet
    /\ result' = IF instanceI18nGlobal = Null
                 THEN Error("Must call initializeI18n() first")
                 ELSE instanceI18nGlobal
    /\ UNCHANGED <<registryVars, envVars, facadeVars>>

\* getInstanceI18nTranslate(abstractClass, config) of the keyed registry
GetInstanceI18nTranslate(abstractClass, config) ==
    /\ impl = "none"
    /\ lastOp' = [op |-> "getInstanceI18nTranslate", lang |-> "",
                  cls |-> abstractClass, config |-> config]
    /\ lastGet' = NoGet
    /\ IF abstractClass \in DOMAIN storeI18nTranslate
       THEN /\ result' = storeI18nTranslate[abstractClass]
            /\ UNCHANGED <<storeI18nTranslate, constructed>>
       ELSE IF ConstructorRaises(mergeConfig(config))
       THEN /\ result' = Error("constructor")
            /\ UNCHANGED <<storeI18nTranslate, constructed>>
       ELSE /\ constructed < MaxSessions
            /\ constructed' = constructed + 1
            /\ storeI18nTranslate' =
                   MapSet(storeI18nTranslate, abstractClass,
                          Instance(constructed + 1, "I18nTranslateImplement",
                                   mergeConfig(config)))
            /\ result' = storeI18nTranslate'[abstractClass]
    /\ UNCHANGED <<translateInstance, isInitialized, instanceI18nGlobal,
                   isInitializedFlag, facadeVars>>

InitRegistry ==
    /\ ResolveIdle
    /\ RenderIdle

NextRegistry ==
    \/ \E config \in RegistryConfigs : InitializeI18n(config)
    \/ \E cls \in ImplementationClasses, config \in RegistryConfigs :
           InitializeI18nWithCustom(cls, config)
    \/ UseI18nTranslate
    \/ SafeGet
    \/ ResetI18n
    \/ \E configure \in RegistryConfigs : StoreInitializeI18n(configure)
    \/ StoreGetInstanceI18n
    \/ \E abstractClass \in AbstractClasses,
          config \in RegistryConfigs \cup {Undefined} :
           GetInstanceI18nTranslate(abstractClass, config)

SpecRegistry == InitRegistry /\ [][NextRegistry]_vars


(***************************************************************************)
(* Claims about loading (checked under SpecStore and SpecClass).           *)
(***************************************************************************)
\* C6: before dispose, at most one GET is ever issued for a language, and
\* while a language is loading its one GET is the request in flight that
\* every further request for it finds.
C6_LoadDeduplication ==
    ~destroyed =>
        \A l \in AllLangs :
            /\ fetchCount[l] <= 1
            /\ IsLoading(loadingStates, l) =>
                   (http[l] = "inflight" /\ fetchCount[l] = 1 /\ l \in subs)

\* Both languages are loading, each with its one GET, and the auto-load
\* effect has run again for the current one without issuing another.
C6_Witness ==
    /\ ~destroyed
    /\ lastOp.op = "effect"
    /\ ~loadDirty
    /\ \A l \in Langs : IsLoading(loadingStates, l) /\ fetchCount[l] = 1

\* C7: once the GET for a language has failed, no step before dispose
\* issues another GET for it.
C7_NoRetryAfterFailure ==
    [][\A l \in AllLangs :
           (loadOutcome[l] = "error" /\ ~destroyed)
               => fetchCount'[l] = fetchCount[l]]_vars

\* C8: after a transport error while loading the current language,
\* get(k, args) is k for every key k.
C8_FetchFailureDegradation ==
    (/\ GetDone
     /\ ~destroyed
     /\ loadOutcome[currentLanguage] = "error")
        => lastGet.result = Str(lastGet.key)

(***************************************************************************)
(* Claims about setLanguage (checked under SpecSession).                   *)
(***************************************************************************)
\* C9: setLanguage(l) with l outside the supported set changes nothing: not
\* the current language, not the persisted language, no GET is issued, no
\* callback is invoked, no effect is scheduled.
C9_UnsupportedNoOp ==
    [][(/\ lastOp'.op = "setLanguage"
        /\ ~Includes(supportedLanguages, lastOp'.lang))
           => /\ fired' = NoneFired
              /\ UNCHANGED <<currentLanguage, fallbackLanguage, storeLanguage,
                             supportedLanguages, persisted, loaderVars,
                             callbacks, saveDirty, loadDirty, cacheDirty,
                             signalCache, observableCache, classImplVars>>]_vars

\* setLanguage was just called with an unsupported code while a GET was in
\* flight.
C9_Witness ==
    /\ lastOp.op = "setLanguage"
    /\ ~Includes(supportedLanguages, lastOp.lang)
    /\ \E l \in Langs : http[l] = "inflight"

\* C10: setLanguage(x) with x the current language issues no GET, starts no
\* load, invokes no callback and schedules no effect; the current language,
\* the Bundle Store and the handle caches stay as they were.
C10_SameLanguageIdempotent ==
    [][(/\ lastOp'.op = "setLanguage"
        /\ lastOp'.lang = currentLanguage)
           => /\ fired' = NoneFired
              /\ UNCHANGED <<currentLanguage, storeLanguage, signalCache,
                             observableCache, loaderVars, loadDirty,
                             cacheDirty, classImplVars>>]_vars

\* setLanguage was just called with the current language of a signal-store
\* session whose bundle is loaded and which holds a cached handle; no effect
\* is scheduled, so the call was not a switch.
C10_Witness ==
    /\ impl = "store"
    /\ lastOp = [op |-> "setLanguage", lang |-> currentLanguage]
    /\ currentLanguage \in DOMAIN storeLanguage
    /\ DOMAIN signalCache # {}
    /\ ~loadDirty
    /\ ~cacheDirty

(***************************************************************************)
(* Claims about switching the language (checked under SpecSession).        *)
(***************************************************************************)
\* The step is a call setLanguage(l) with l supported and not current.
SwitchStep ==
    /\ lastOp'.op = "setLanguage"
    /\ Includes(supportedLanguages, lastOp'.lang)
    /\ lastOp'.lang # currentLanguage

\* No effect that reads the current language is still to run.
EffectsDone ==
    IF impl = "store" THEN ~saveDirty /\ ~loadDirty ELSE ~resDirty

\* The current language's bundle is in the Bundle Store, or its GET is in
\* flight with the session waiting for it.
LoadedOrInFlight ==
    \/ currentLanguage \in DOMAIN storeLanguage
    \/ /\ http[currentLanguage] = "inflight"
       /\ fetchCount[currentLanguage] >= 1
       /\ IF impl = "store"
          THEN currentLanguage \in subs
          ELSE resPending = currentLanguage
    \/ /\ impl = "class"
       /\ resValue # Undefined
       /\ resValue.lang = currentLanguage
       /\ fetchCount[currentLanguage] >= 1

C12_SupportedListReplaced ==
    [][/\ lastOp'.op = "setLanguageSupport" =>
              supportedLanguages' =
                  IF NoLength(lastOp'.langs) THEN supportedLanguages
                  ELSE lastOp'.langs.v
       /\ lastOp'.op = "getLanguageSupport" =>
              /\ result' = Arr(supportedLanguages)
              /\ UNCHANGED supportedLanguages
       /\ lastOp'.op = "mutate" => UNCHANGED supportedLanguages]_vars

\* The caller passed ['vi'], kept the array and pushed 'ja' to it: the
\* supported list is ['vi'] still.
C12_Witness ==
    /\ lastOp.op = "mutate"
    /\ heldList = Arr(<<"vi", "ja">>)
    /\ supportedLanguages = <<"vi">>

(***************************************************************************)
(* Claims about the change callbacks (checked under SpecCallbacks).        *)
(***************************************************************************)
\* The step puts a bundle in the Bundle Store that was not there.
BundleReplaced(l) ==
    /\ l \in DOMAIN storeLanguage'
    /\ l \notin DOMAIN storeLanguage \/ storeLanguage'[l] # storeLanguage[l]

\* C13: a step in which a completed load replaces a language's bundle
\* invokes every registered callback exactly once, and every other step (a
\* completed load whose data is judged unchanged, a language switch, an
\* effect, a registration, dispose) invokes none.
C13_ChangeNotification ==
    [][fired' = [fn \in AllCallbacks |->
                    IF (\E l \in AllLangs : BundleReplaced(l)) /\ fn \in callbacks
                    THEN 1 ELSE 0]]_vars

\* A GET has just completed and put vi's bundle in the store next to en's;
\* the one registered callback was invoked once.
C13_Witness ==
    /\ lastOp.op = "http"
    /\ callbacks = {"f"}
    /\ fired = [fn \in AllCallbacks |-> IF fn = "f" THEN 1 ELSE 0]
    /\ DOMAIN storeLanguage = {"en", "vi"}

\* C14: in a notification in which a callback that throws is invoked,
\* every registered callback is invoked, no error leaves the step, the
\* bundle is in the store and the language's loading flag is cleared.
C14_CallbackFailureIsolation ==
    [][(\E fn \in AllCallbacks : Throws(fn) /\ fired'[fn] > 0) =>
           /\ \A fn \in callbacks : fired'[fn] = 1
           /\ result' = NoResult
           /\ \E l \in AllLangs :
                  /\ BundleReplaced(l)
                  /\ l \in DOMAIN loadingStates'
                  /\ ~loadingStates'[l]]_vars

\* A notification has just invoked the throwing callback and the other one.
C14_Witness ==
    /\ lastOp.op = "http"
    /\ callbacks = AllCallbacks
    /\ \A fn \in AllCallbacks : fired[fn] = 1
    /\ result = NoResult
    /\ ~IsLoading(loadingStates, currentLanguage)
    /\ currentLanguage \in DOMAIN storeLanguage

\* C15: a callback is invoked only while it is registered and at most once
\* per change; the revoke function removes its callback and no other,
\* invokes nothing, and called again changes nothing; registering a
\* callback that is registered leaves the set as it is.
C15_Deregistration ==
    [][/\ \A fn \in AllCallbacks :
              /\ fired'[fn] <= 1
              /\ fired'[fn] > 0 => fn \in callbacks
       /\ lastOp'.op = "revoke" =>
              /\ callbacks' = callbacks \ {lastOp'.fn}
              /\ fired' = NoneFired
              /\ ~lastOp'.had =>
                     UNCHANGED <<callbacks, currentLanguage, storeLanguage,
                                 supportedLanguages, persisted, loaderVars>>
       /\ lastOp'.op = "onChangedLanguage" =>
              /\ callbacks' = callbacks \cup {lastOp'.fn}
              /\ lastOp'.fn \in callbacks => UNCHANGED callbacks]_vars

\* The revoke function of the registered callback "f" has just been called
\* while "g" was registered too: "g" is registered still, "f" is not.
C15_Witness ==
    /\ lastOp.op = "revoke"
    /\ lastOp.fn = "f"
    /\ lastOp.had
    /\ callbacks = {"g"}

(***************************************************************************)
(* Claim about dispose() (checked under SpecDispose).                      *)
(***************************************************************************)
\* What dispose() is to leave empty.
Cleared ==
    /\ storeLanguage = <<>>
    /\ translationRequestCache = {}
    /\ callbacks = {}
    /\ signalCache = <<>>
    /\ observableCache = <<>>

\* C16: every dispose() raises nothing and leaves the Bundle Store, the
\* request cache, the callback set and the handle caches empty; a get made
\* in the state dispose() left returns its key, whatever the key and the
\* arguments; a dispose() that finds that state cleared leaves it, the
\* languages and the stored language as they are.
C16_DisposeClearsEverything ==
    /\ [][lastOp'.op = "dispose"
          => /\ Cleared'
             /\ result' = NoResult
             /\ Cleared => UNCHANGED <<currentLanguage, fallbackLanguage,
                                       storeLanguage, callbacks, signalCache,
                                       observableCache, translationRequestCache,
                                       supportedLanguages, persisted,
                                       loadingStates>>]_vars
    /\ [][(lastOp.op = "dispose" /\ lastGet'.impl = "store")
          => /\ lastGet'.result = Str(lastGet'.key)
             /\ Cleared']_vars

C16_Witness ==
    /\ lastOp.op = "dispose"
    /\ lastOp.again
    /\ Cleared
    /\ loadOutcome["en"] = "ok"
    /\ loadOutcome["vi"] = "ok"
    /\ fetchCount["en"] = 2


(***************************************************************************)
(* Claims about the registries (checked under SpecRegistry).               *)
(***************************************************************************)
InitializeOps ==
    {"initializeI18n", "initializeI18nWithCustom", "storeInitializeI18n",
     "getInstanceI18nTranslate"}

\* The instances the registry that op belongs to holds.
HeldBy(op) ==
    IF op \in {"initializeI18n", "initializeI18nWithCustom"}
    THEN {translateInstance} \ {Null}
    ELSE IF op = "storeInitializeI18n"
    THEN {instanceI18nGlobal} \ {Null}
    ELSE {storeI18nTranslate[k] : k \in DOMAIN storeI18nTranslate}

ClassFits(held, cls) ==
    \/ held.cls = cls
    \/ held.cls = "SubImplement" /\ cls = "I18nTranslateImplement"

C18_InitializationOrder ==
    /\ [][lastOp'.op = "useI18nTranslate"
          => result' = IF translateInstance = Null
                       THEN Error("Must call initializeI18n() first")
                       ELSE translateInstance]_vars
    /\ [][lastOp'.op = "safeGet" => result' = translateInstance]_vars
    /\ [][lastOp'.op = "storeGetInstanceI18n"
          => result' = IF instanceI18nGlobal = Null
                       THEN Error("Must call initializeI18n() first")
                       ELSE instanceI18nGlobal]_vars
    /\ [][lastOp'.op = "resetI18n" => translateInstance' = Null]_vars
    /\ [][lastOp'.op \in {"initializeI18n", "initializeI18nWithCustom"}
          => /\ translateInstance' =
                    IF constructed' # constructed
                    THEN result' ELSE translateInstance
             /\ (translateInstance = Null
                   /\ ~ConstructorRaises(lastOp'.config))
                => /\ result'.t = "instance"
                   /\ result'.id = constructed + 1
                   /\ result'.cls = lastOp'.cls
                   /\ result'.config = lastOp'.config]_vars
    /\ [][lastOp'.op = "storeInitializeI18n"
          => /\ instanceI18nGlobal' =
                    IF constructed' # constructed
                    THEN result' ELSE instanceI18nGlobal
             /\ (instanceI18nGlobal = Null
                   /\ ~ConstructorRaises(lastOp'.config))
                => /\ result'.t = "instance"
                   /\ result'.id = constructed + 1
                   /\ result'.config = lastOp'.config]_vars
    /\ [][lastOp'.op \notin
              {"initializeI18n", "initializeI18nWithCustom", "resetI18n"}
          => UNCHANGED translateInstance]_vars
    /\ [][lastOp'.op # "storeInitializeI18n"
          => UNCHANGED instanceI18nGlobal]_vars
    /\ [](constructed = 0
            => translateInstance = Null /\ instanceI18nGlobal = Null)
    /\ [](\A held \in HeldBy("initializeI18n") \cup HeldBy("storeInitializeI18n") :
              held.id <= constructed)

\* use() returns the second session of the class registry, built after a
\* reset.
C18_Witness ==
    /\ lastOp.op = "useI18nTranslate"
    /\ result.t = "instance"
    /\ result.id = 2
    /\ result = translateInstance
    /\ instanceI18nGlobal = Null
    /\ storeI18nTranslate = <<>>


(***************************************************************************)
(* Claims about handles (checked under SpecHandles).                       *)
(***************************************************************************)
HandleOps == {"getSignal", "get$"}

\* C19: of two calls of getSignal, or of get$, with a key and argument
\* lists that give one cache key, made one right after the other (so with
\* no cache invalidation between them), the second returns the handle the
\* first returned and creates no object.
C19_SharedHandle ==
    [][(/\ lastOp.op \in HandleOps
        /\ lastOp'.op = lastOp.op
        /\ lastOp'.cacheKey = lastOp.cacheKey)
       => /\ result' = result
          /\ created' = created]_vars

\* The same for the store with handle caches alone, and between any two
\* invalidations: a call that finds a handle cached for its cache key
\* returns it and creates nothing, and a cached handle stays until the
\* cache-clearing effect runs or dispose() is called.
C19_SharedHandleCached ==
    /\ [][(impl = "store" /\ lastOp'.op = "getSignal"
             /\ lastOp'.cacheKey \in DOMAIN signalCache)
          => /\ result' = signalCache[lastOp'.cacheKey]
             /\ UNCHANGED <<signalCache, observableCache, created>>]_vars
    /\ [][(impl = "store" /\ lastOp'.op = "get$"
             /\ lastOp'.cacheKey \in DOMAIN observableCache)
          => /\ result' = observableCache[lastOp'.cacheKey]
             /\ UNCHANGED <<signalCache, observableCache, created>>]_vars
    /\ [][lastOp'.op \notin {"effect", "dispose"}
          => /\ \A k \in DOMAIN signalCache :
                    k \in DOMAIN signalCache'
                      /\ signalCache'[k] = signalCache[k]
             /\ \A k \in DOMAIN observableCache :
                    k \in DOMAIN observableCache'
                      /\ observableCache'[k] = observableCache[k]]_vars

\* The store with handle caches hands out, for an argument list holding
\* undefined, the signal it created for the list holding null.
C19_Witness ==
    /\ impl = "store"
    /\ lastOp.op = "getSignal"
    /\ lastOp.args = <<Undefined>>
    /\ result.t = "signal"
    /\ result.args = <<Null>>
    /\ result = signalCache[lastOp.cacheKey]
    /\ created = 3
    /\ DOMAIN observableCache = {K_k}


(***************************************************************************)
(* Claim about the values a get$ handle emits (checked under SpecStream).  *)
(***************************************************************************)
\* C20: of the values a subscriber of a get$ handle has received, no two
\* in a row are equal.
C20_NoRedundantEmission ==
    \A i \in 1..(Len(emitted) - 1) : emitted[i] # emitted[i + 1]

\* The text a subscriber of the handle has now: the value emitted last.
HandleValue == IF Len(emitted) = 0 THEN Undefined ELSE emitted[Len(emitted)]

\* A handle is subscribed to while the current language has no bundle.
C21_SubscribedBeforeLoad ==
    /\ impl = "class"
    /\ stream # NoStream
    /\ ~AlreadyLoaded(storeLanguage, currentLanguage)

\* The handle's value is get(key, args) against the loaded bundle of the
\* current language.
C21_HandleShowsLoaded ==
    /\ stream # NoStream
    /\ AlreadyLoaded(storeLanguage, currentLanguage)
    /\ HandleValue = getTranslationText(stream.key, currentLanguage, stream.args,
                                        fallbackLanguage, storeLanguage)

\* C21: a handle obtained and subscribed to while the bundle of the current
\* language is not loaded has, once the fetch of that language has ended
\* and the effects have run, the value get(key, args) has against the
\* loaded bundle.
C21_ReactiveUpdateAfterLoad == C21_SubscribedBeforeLoad ~> C21_HandleShowsLoaded

\* The subscriber was handed the key as text, the bundle arrived after
\* that and holds a text for the key, and nothing is left to run.
C21_Witness ==
    /\ stream # NoStream
    /\ stream.key = K_k
    /\ emitted = <<Str("k")>>
    /\ AlreadyLoaded(storeLanguage, currentLanguage)
    /\ getTranslationText(stream.key, currentLanguage, stream.args,
                          fallbackLanguage, storeLanguage) # Str("k")
    /\ ~resDirty /\ resPending = "" /\ ~effDirty /\ ~langDirty /\ ~waitDirty
    /\ waitLang = ""

\* get("welcome") was just called with vi current and en's bundle loaded
\* from {welcome: "Welcome"}.
C22_GetWelcome ==
    /\ lastGet # NoGet
    /\ lastGet.key = K_welcome
    /\ currentLanguage = "vi"
    /\ fallbackLanguage = "en"
    /\ "en" \in DOMAIN storeLanguage
    /\ K_welcome \in DOMAIN storeLanguage["en"]

\* vi's bundle is loaded and holds the key.
C22_ViHasWelcome ==
    /\ "vi" \in DOMAIN storeLanguage
    /\ K_welcome \in DOMAIN storeLanguage["vi"]

\* C22: in the fallback scenario, after setLanguage("vi"), get("welcome")
\* returns "Welcome" while vi's bundle is pending, failed or loaded
\* without the key, and vi's own text once vi's loaded bundle holds the key.
C22_FallbackScenario ==
    C22_GetWelcome =>
        lastGet.result = IF C22_ViHasWelcome
                         THEN serverFiles["vi"][K_welcome]
                         ELSE Str(S_Welcome)

\* The part of C22 about a vi bundle that does not hold the key, in the
\* signal store.
C22_FallbackWhileMissingStore ==
    (impl = "store" /\ C22_GetWelcome /\ ~C22_ViHasWelcome)
        => lastGet.result = Str(S_Welcome)

\* The fetch of vi failed, {} is vi's bundle, and get("welcome") of the
\* class returned the key.
C22_Witness ==
    /\ impl = "class"
    /\ C22_GetWelcome
    /\ loadOutcome["vi"] = "error"
    /\ "vi" \in DOMAIN storeLanguage
    /\ storeLanguage["vi"] = EmptyBundle
    /\ lastGet.result = Str(K_welcome)

\* The configuration in force: the class lays the caller's fields over
\* its defaults, the signal store takes the caller's configuration as it is.
C23_InForce ==
    IF impl = "class"
    THEN i18nConfig @@ [defaultLanguage |-> "vi", fallbackLanguage |-> "en",
                        languageSupported |-> <<"vi", "en">>]
    ELSE i18nConfig

\* The persisted language if one is stored, else the configured default.
C23_Wanted ==
    IF persisted # "" THEN persisted ELSE C23_InForce.defaultLanguage

C23_Supported ==
    IF C23_InForce.languageSupported = <<>>
    THEN <<C23_Wanted>>
    ELSE C23_InForce.languageSupported

C24_FallbackDefault ==
    [][/\ fallbackLanguage' = fallbackLanguage
       /\ lastOp = NoOp =>
              fallbackLanguage =
                  IF "fallbackLanguage" \in DOMAIN i18nConfig
                  THEN i18nConfig.fallbackLanguage
                  ELSE currentLanguage]_vars

\* C24 (amended): when the configuration in force -- for the class the
\* caller's fields over DEFAULT_I18N_CONFIG, which states the fallback
\* language en -- states no fallbackLanguage, the fallback language of the
\* constructed session is its initial current language, and the stated
\* value otherwise; no public operation changes it.
C24_FallbackInForce ==
    [][/\ fallbackLanguage' = fallbackLanguage
       /\ lastOp = NoOp =>
              fallbackLanguage =
                  IF "fallbackLanguage" \in DOMAIN C23_InForce
                  THEN C23_InForce.fallbackLanguage
                  ELSE currentLanguage]_vars

\* A signal store constructed without a fallback language, whose language
\* was changed since: the fallback language is still the initial one.
C24_Witness ==
    /\ impl = "store"
    /\ "fallbackLanguage" \notin DOMAIN i18nConfig
    /\ lastOp.op = "setLanguage"
    /\ persisted = ""
    /\ "defaultLanguage" \in DOMAIN i18nConfig
    /\ i18nConfig.defaultLanguage = "vi"
    /\ fallbackLanguage = "vi"
    /\ currentLanguage = "en"

\* The bundle of the current language holds "home": {"title": "Home Page"}.
C25_HomeLoaded ==
    /\ currentLanguage \in DOMAIN storeLanguage
    /\ K_home \in DOMAIN storeLanguage[currentLanguage]
    /\ storeLanguage[currentLanguage][K_home] = Nested(K_title :> Str(S_HomePage))

\* C25: with "home": {"title": "Home Page"} in the bundle of the current
\* language, get("home.title") returns "Home Page".
C25_NestedKeys ==
    (/\ lastGet # NoGet
     /\ lastGet.key = K_home_title
     /\ C25_HomeLoaded)
        => lastGet.result = Str(S_HomePage)

\* get("home.title") returned the key with the nested entry loaded.
C25_Witness ==
    /\ lastGet # NoGet
    /\ lastGet.key = K_home_title
    /\ C25_HomeLoaded
    /\ lastGet.result = Str(K_home_title)

\* The current language has a bundle whose own entry for the key of the
\* last get is neither a text nor a render function, and no other language
\* is consulted.
C26_OddEntry ==
    /\ currentLanguage \in DOMAIN storeLanguage
    /\ lastGet.key \in DOMAIN storeLanguage[currentLanguage]
    /\ storeLanguage[currentLanguage][lastGet.key].t = "obj"
    /\ fallbackLanguage \in {"", currentLanguage}

\* C26: for every key, argument list, current language, fallback language
\* and store, get returns a string and raises nothing; an entry that is
\* neither a text nor a render function resolves to the key.
C26_ResolutionTotal ==
    lastGet # NoGet =>
        /\ lastGet.result.t = "str"
        /\ C26_OddEntry => lastGet.result = Str(lastGet.key)

\* The part of C26 about the keys no bundle object inherits.
C26_TotalOnOwnKeys ==
    (lastGet # NoGet /\ lastGet.key \notin InheritedNames) =>
        /\ lastGet.result.t = "str"
        /\ C26_OddEntry => lastGet.result = Str(lastGet.key)

\* get("valueOf") raised a TypeError to its caller.
C26_Witness ==
    /\ lastGet # NoGet
    /\ lastGet.key = S_valueOf
    /\ lastGet.args = <<>>
    /\ currentLanguage \in DOMAIN storeLanguage
    /\ storeLanguage[currentLanguage] = EmptyBundle
    /\ lastGet.result.t = "error"

\* The load state of a language: 0 not requested, 1 in flight, 2 loaded.
C27_LoadState(store, states, lang) ==
    IF lang \in DOMAIN store THEN 2
    ELSE IF lang \in DOMAIN states /\ states[lang] THEN 1
    ELSE 0

C28_TeardownStopsDelivery ==
    [][(destroyed /\ lastOp'.op = "http")
          => /\ storeLanguage' = storeLanguage
             /\ fired' = NoneFired]_vars

\* The part of C28 about a fetch in flight at dispose: its subscription
\* was made before dispose.
C28_InFlightAtDispose ==
    [][(destroyed /\ lastOp'.op = "http" /\ subs' = subs)
          => /\ storeLanguage' = storeLanguage
             /\ fired' = NoneFired]_vars

\* After dispose() a fetch result was merged into the Bundle Store and a
\* change callback registered after dispose() was called.
C28_Witness ==
    /\ impl = "store"
    /\ destroyed
    /\ lastOp.op = "http"
    /\ storeLanguage # <<>>
    /\ fired["f"] = 1

\* The entries of both handle caches, as the objects they are.
C29_Entries(signals, observables) ==
    {signals[k] : k \in DOMAIN signals}
        \cup {observables[k] : k \in DOMAIN observables}

\* C29: every change of the current language and every replacement of a
\* bundle leaves the cache-clearing effect pending, and once it has run
\* the handle caches hold no entry they held before.
C29_CacheInvalidation ==
    [][/\ (currentLanguage' # currentLanguage \/ storeLanguage' # storeLanguage)
           => cacheDirty'
       /\ (cacheDirty /\ ~cacheDirty')
           => C29_Entries(signalCache', observableCache')
                  \cap C29_Entries(signalCache, observableCache) = {}]_vars

\* A bundle has arrived, the effect has run, and the caches hold handles
\* made since, the signal made first being gone.
C29_Witness ==
    /\ impl = "store"
    /\ storeLanguage # <<>>
    /\ ~cacheDirty
    /\ K_k \in DOMAIN signalCache
    /\ signalCache[K_k].id > 1

\* The languages whose bundle a step adds or changes.
C30_Touched ==
    {lang \in DOMAIN storeLanguage' :
        lang \notin DOMAIN storeLanguage
            \/ storeLanguage'[lang] # storeLanguage[lang]}

\* C30: up to dispose the languages of the Bundle Store only grow in
\* number -- no setLanguage, setLanguageSupport, read or load completion
\* removes one -- and the completion of a load changes the bundle of one
\* language at most.
C30_MonotoneStore ==
    [][~destroyed' =>
          /\ DOMAIN storeLanguage \subseteq DOMAIN storeLanguage'
          /\ lastOp'.op \in {"http", "effect"} => Cardinality(C30_Touched) <= 1]_vars

\* The bundle of a second language has just been stored beside the first.
C30_Witness ==
    /\ ~destroyed
    /\ lastOp.op \in {"http", "effect"}
    /\ DOMAIN storeLanguage = {"en", "vi"}
    /\ storeLanguage["en"] # EmptyBundle
    /\ storeLanguage["vi"] # EmptyBundle
    /\ ~loadDirty

\* What the get whose result lastGet' records returns when it is called a
\* second time in the state the first call left.
C31_Again ==
    IF lastGet'.impl = "class"
    THEN getTranslationText(lastGet'.key, currentLanguage', lastGet'.args,
                            fallbackLanguage', storeLanguage')
    ELSE translateFn(lastGet'.key, lastGet'.args, currentLanguage',
                     fallbackLanguage', storeLanguage')

\* C31: get(key, ...args) starts no fetch, changes no language's load
\* state, no request-cache entry, not the current language and not the
\* callback set, and fires no callback; called again with nothing in
\* between it returns the same string.
C31_GetHasNoLoadingEffect ==
    [][lastOp'.op = "get" =>
          /\ UNCHANGED <<loaderVars, currentLanguage, fallbackLanguage,
                         supportedLanguages, persisted, callbacks,
                         classImplVars, saveDirty, loadDirty>>
          /\ fired' = NoneFired
          /\ C31_Again = lastGet'.result]_vars

\* A get has rendered a text of the current language's bundle, compiling
\* it in place, while the fetch of another language is in flight.
C31_Witness ==
    /\ lastOp.op = "get"
    /\ lastGet.result \notin {Str(lastGet.key), Null}
    /\ lastGet.result.t = "str"
    /\ \E lang \in DOMAIN storeLanguage :
          \E key \in DOMAIN storeLanguage[lang] :
             storeLanguage[lang][key].t = "fn"
    /\ \/ \E lang \in DOMAIN loadingStates : loadingStates[lang]
       \/ resPending # ""

\* C32: in every state reached by setLanguage and setLanguageSupport calls
\* the current language is a member of the supported languages.
C32_CurrentSupported == Includes(supportedLanguages, currentLanguage)

\* The signal store, which has no setLanguageSupport, keeps the current
\* language among the supported ones; so does every session up to its
\* first accepted setLanguageSupport.
C32_CurrentSupportedStore ==
    impl = "store" \/ lastOp = NoOp => C32_CurrentSupported

\* setLanguageSupport has replaced the supported languages of a class
\* session by a list without the current language.
C32_Witness ==
    /\ impl = "class"
    /\ lastOp.op = "setLanguageSupport"
    /\ ~NoLength(lastOp.langs)
    /\ supportedLanguages = lastOp.langs.v
    /\ ~Includes(supportedLanguages, currentLanguage)

\* The key of the getSignal request that ran last: its cache key without
\* the serialized arguments.
C33_RequestKey ==
    IF lastOp.args = <<>> THEN lastOp.cacheKey
    ELSE SubSeq(lastOp.cacheKey, 1,
                Len(lastOp.cacheKey) - 1 - Len(JsonStringify(lastOp.args)))

\* The value read from a signal handle: translateFn()(key, values) of the
\* request it was created for.
C33_HandleRead(handle) ==
    translateFn(handle.key, handle.args, currentLanguage, fallbackLanguage,
                storeLanguage)

\* C33: the handle getSignal(key, ...args) returns reads as get(key,
\* ...args) does, and it is the handle of that (key, args) pair and of no
\* other.
C33_HandleResolvesRequest ==
    (impl = "store" /\ lastOp.op = "getSignal")
        => /\ C33_HandleRead(result)
                  = translateFn(C33_RequestKey, lastOp.args, currentLanguage,
                                fallbackLanguage, storeLanguage)
           /\ result.key = C33_RequestKey
           /\ result.args = lastOp.args

\* A handle reads as the get of the request it was created for, and a
\* request whose cache key no other request shares gets a handle of its
\* own.
C33_OwnHandleResolves ==
    (impl = "store" /\ lastOp.op = "getSignal"
        /\ \A key \in CollidingKeys, values \in CollidingArgLists :
              getCacheKey(key, values) = lastOp.cacheKey
                  => key = C33_RequestKey /\ values = lastOp.args)
        => /\ result.key = C33_RequestKey
           /\ result.args = lastOp.args

\* getSignal('k:[1]') has returned the handle created for getSignal('k', 1);
\* it reads 'a1' where get('k:[1]') returns 'b'.
C33_Witness ==
    /\ impl = "store"
    /\ lastOp.op = "getSignal"
    /\ lastOp.args = <<>>
    /\ lastOp.cacheKey = K_k_1
    /\ result.key = K_k
    /\ result.args = <<Num(1)>>
    /\ C33_HandleRead(result) = Str(<<"a", "1">>)
    /\ translateFn(K_k_1, <<>>, currentLanguage, fallbackLanguage,
                   storeLanguage) = Str(<<"b">>)

\* The entries of the LRU cache that the step removes.
C34_Removed ==
    {e \in LruEntries(lruCache) : ~LruHas(lruCache', e.key)}

\* C34: a cache created with maxSize >= 1 never holds more than maxSize
\* entries, whatever keys are asked for.
C34_SizeBound == Len(lruCache) <= lruMaxSize

\* An insertion removes one entry at most, and the entry it removes is one
\* whose last-used time no other entry is below; as long as the entry of
\* the empty-string key is not the oldest one when the cache is full, the
\* cache holds no more than maxSize entries.
C34_EvictsAnOldest ==
    [][lastOp'.op = "lruGet" =>
          /\ Cardinality(C34_Removed) <= 1
          /\ \A e \in C34_Removed :
                 \A o \in LruEntries(lruCache) : e.lastUsed <= o.lastUsed
          /\ (Len(lruCache) <= lruMaxSize /\ OldestKey(lruCache) # <<>>)
                 => Len(lruCache') <= lruMaxSize]_vars

\* A cache of maxSize 1 holds two entries: the one of the empty-string
\* key, which was the oldest when the second key was asked for, and that
\* of the second key.
C34_Witness ==
    /\ lruMaxSize = 1
    /\ lastOp.op = "lruGet"
    /\ Len(lruCache) = 2
    /\ lruCache[1].key = <<>>
    /\ lruCache[2].key = lastOp.cacheKey
    /\ lruCache[1].lastUsed <= lruCache[2].lastUsed

\* The initialized flag of each singleton registry is true exactly when
\* the registry holds an instance.
C35_FlagIffHeld ==
    /\ isInitialized <=> translateInstance # Null
    /\ isInitializedFlag <=> instanceI18nGlobal # Null

\* An initialize of the class registry, one of the store registry.
C35_ClassInit == lastOp'.op \in {"initializeI18n", "initializeI18nWithCustom"}

C35_StoreInit == lastOp'.op = "storeInitializeI18n"

\* C35: in every state of the singleton registries the initialized flag
\* is true exactly when an instance is held; an initialize on an
\* uninitialized registry whose session constructor raises (no injector,
\* or one that provides no HttpClient) raises to the caller and leaves the
\* registry uninitialized, so that use() raises; an initialize with a
\* valid config on an uninitialized registry constructs a new session,
\* holds it and returns it.
C35_RegistryConsistency ==
    [][/\ C35_FlagIffHeld'
       /\ (C35_ClassInit /\ ~isInitialized
              /\ lastOp'.config.injector # "full")
             => /\ result'.t = "error"
                /\ ~isInitialized' /\ translateInstance' = Null
                /\ notInitialized(isInitialized', translateInstance')
       /\ (C35_StoreInit /\ ~isInitializedFlag
              /\ lastOp'.config.injector # "full")
             => /\ result'.t = "error"
                /\ ~isInitializedFlag' /\ instanceI18nGlobal' = Null
       /\ (C35_ClassInit /\ ~isInitialized
              /\ lastOp'.config.injector = "full")
             => /\ result' = Instance(constructed + 1, lastOp'.cls,
                                      lastOp'.config)
                /\ translateInstance' = result'
                /\ isInitialized'
       /\ (C35_StoreInit /\ ~isInitializedFlag
              /\ lastOp'.config.injector = "full")
             => /\ result' = Instance(constructed + 1, "store",
                                      lastOp'.config)
                /\ instanceI18nGlobal' = result'
                /\ isInitializedFlag'
       /\ (lastOp'.op = "useI18nTranslate" /\ ~isInitialized)
             => result'.t = "error"
       /\ (lastOp'.op = "storeGetInstanceI18n" /\ ~isInitializedFlag)
             => result'.t = "error"]_vars

\* After a session was constructed and the class registry reset, an
\* initialize whose injector provides no HttpClient has raised: both
\* singleton registries are uninitialized and hold nothing.
C35_Witness ==
    /\ lastOp.op = "initializeI18n"
    /\ lastOp.config.injector = "bare"
    /\ result = Error("constructor")
    /\ constructed >= 1
    /\ ~isInitialized
    /\ translateInstance = Null
    /\ ~isInitializedFlag
    /\ instanceI18nGlobal = Null
    /\ storeI18nTranslate = <<>>

====
